---- MODULE Spec2Model ----
(***************************************************************************)
(* Model of zipstream.StreamZipToBase64Writer (zipstream/zipstream.go):    *)
(* entry validation, base-directory resolution, the per-entry loop with    *)
(* the cancellable copier, and the deferred close of the archive writer    *)
(* and the base64 encoder.                                                 *)
(*                                                                         *)
(* Go strings are sequences of one-character strings.  Bytes are naturals  *)
(* below 256.  The destination sink receives base64 sextets (0..63) and    *)
(* the padding symbol Pad.  The platform is a Unix build: the path         *)
(* separator is "/" and filepath.IsAbs is "starts with /".                 *)
(***************************************************************************)
EXTENDS Integers, Sequences, FiniteSets, TLC

(***************************************************************************)
(* Bounds of the model                                                     *)
(***************************************************************************)
MaxEntries == 3
MaxData == 2

\* The largest number of bytes a file of package filestream holds.
MaxFile == 4

(***************************************************************************)
(* strings package                                                         *)
(***************************************************************************)
HasPrefix(s, p) == Len(p) <= Len(s) /\ SubSeq(s, 1, Len(p)) = p

HasSuffix(s, p) == Len(p) <= Len(s) /\ SubSeq(s, Len(s) - Len(p) + 1, Len(s)) = p

Contains(s, sub) == \E k \in 0..(Len(s) - Len(sub)) : SubSeq(s, k + 1, k + Len(sub)) = sub

ReplaceAll(s, old, new) == [k \in 1..Len(s) |-> IF s[k] = old THEN new ELSE s[k]]

(***************************************************************************)
(* path/filepath package (Unix)                                            *)
(***************************************************************************)
PathSeparator == "/"

IsAbs(p) == HasPrefix(p, <<PathSeparator>>)

\* The segments of p between separators, empty segments included.
RECURSIVE SplitFrom(_, _, _)
SplitFrom(p, k, cur) ==
    IF k > Len(p) THEN <<cur>>
    ELSE IF p[k] = PathSeparator THEN <<cur>> \o SplitFrom(p, k + 1, <<>>)
    ELSE SplitFrom(p, k + 1, Append(cur, p[k]))

Split(p) == SplitFrom(p, 1, <<>>)

\* filepath.Clean on the segments: "" and "." dropped, ".." removes the
\* segment before it, is dropped at the root and kept at the front of a
\* relative path.
RECURSIVE CleanSegs(_, _, _)
CleanSegs(segs, rooted, out) ==
    IF segs = <<>> THEN out
    ELSE LET s == Head(segs) IN
         IF s = <<>> \/ s = <<".">> THEN CleanSegs(Tail(segs), rooted, out)
         ELSE IF s = <<".", ".">> THEN
              IF out # <<>> /\ out[Len(out)] # <<".", ".">>
              THEN CleanSegs(Tail(segs), rooted, SubSeq(out, 1, Len(out) - 1))
              ELSE IF rooted THEN CleanSegs(Tail(segs), rooted, out)
              ELSE CleanSegs(Tail(segs), rooted, Append(out, s))
         ELSE CleanSegs(Tail(segs), rooted, Append(out, s))

RECURSIVE JoinSegs(_)
JoinSegs(segs) ==
    IF segs = <<>> THEN <<>>
    ELSE IF Len(segs) = 1 THEN Head(segs)
    ELSE Head(segs) \o <<PathSeparator>> \o JoinSegs(Tail(segs))

Clean(p) ==
    IF p = <<>> THEN <<".">>
    ELSE LET segs == CleanSegs(Split(p), IsAbs(p), <<>>) IN
         IF IsAbs(p) THEN <<PathSeparator>> \o JoinSegs(segs)
         ELSE IF segs = <<>> THEN <<".">> ELSE JoinSegs(segs)

\* filepath.Join of two elements: empty elements are ignored, the rest is
\* joined with a separator and cleaned.
Join(a, b) ==
    IF a = <<>> /\ b = <<>> THEN <<>>
    ELSE IF a = <<>> THEN Clean(b)
    ELSE IF b = <<>> THEN Clean(a)
    ELSE Clean(a \o <<PathSeparator>> \o b)

\* The working directory of the process, used by filepath.Abs.
Getwd == <<"/", "w">>

Abs(p) == IF IsAbs(p) THEN Clean(p) ELSE Join(Getwd, p)

\* filepath.Ext: the suffix from the last dot of the last path element.
RECURSIVE ExtFrom(_, _)
ExtFrom(path, i) ==
    IF i < 1 \/ path[i] = PathSeparator THEN <<>>
    ELSE IF path[i] = "." THEN SubSeq(path, i, Len(path))
    ELSE ExtFrom(path, i - 1)

Ext(path) == ExtFrom(path, Len(path))

(***************************************************************************)
(* Errors.  kind names the error the function builds, arg the entry name   *)
(* or path its message carries, cause the kind of the error it wraps.      *)
(***************************************************************************)
Nil == [kind |-> "nil", arg |-> <<>>, cause |-> "nil"]

Error(kind, arg, cause) == [kind |-> kind, arg |-> arg, cause |-> cause]

(***************************************************************************)
(* Compression policy                                                      *)
(***************************************************************************)
defaultCompressedExt ==
    { <<".", "z", "i", "p">>, <<".", "r", "a", "r">>, <<".", "7", "z">>,
      <<".", "j", "p", "g">>, <<".", "j", "p", "e", "g">>, <<".", "p", "n", "g">>,
      <<".", "g", "i", "f">>, <<".", "p", "d", "f">>, <<".", "m", "p", "4">>,
      <<".", "m", "o", "v">>, <<".", "a", "v", "i">>, <<".", "m", "k", "v">>,
      <<".", "w", "e", "b", "p">>, <<".", "d", "o", "c", "x">>,
      <<".", "x", "l", "s", "x">>, <<".", "p", "p", "t", "x">> }

\* strings.ToLower on the letters of the inputs.
ToLower(c) == CASE c = "P" -> "p" [] c = "N" -> "n" [] c = "G" -> "g" [] OTHER -> c

\* A lookup of the extension that ignores its case.
isPreCompressedAnyCase(name) ==
    [k \in 1..Len(Ext(name)) |-> ToLower(Ext(name)[k])] \in defaultCompressedExt

isPreCompressed(name) == Ext(name) \in defaultCompressedExt

(***************************************************************************)
(* validateEntries                                                         *)
(***************************************************************************)
\* validateEntries that never records a name in seen.
RECURSIVE validateForgetful(_, _, _)
validateForgetful(es, k, seen) ==
    IF k > Len(es) THEN Nil
    ELSE LET e == es[k]
             n == ReplaceAll(e.Name, "\\", "/")
         IN IF e.Name = <<>> THEN Error("EmptyName", <<>>, "nil")
            ELSE IF HasPrefix(n, <<"/">>) \/ Contains(n, <<".", ".", "/">>)
                 THEN Error("UnsafeName", e.Name, "nil")
            ELSE IF Contains(e.Name, <<":">>) \/ IsAbs(e.Name)
                 THEN Error("UnsafeAbsName", e.Name, "nil")
            ELSE IF e.Name \in seen THEN Error("DuplicateName", e.Name, "nil")
            ELSE validateForgetful(es, k + 1, seen)

RECURSIVE validateFrom(_, _, _)
validateFrom(es, k, seen) ==
    IF k > Len(es) THEN Nil
    ELSE LET e == es[k]
             n == ReplaceAll(e.Name, "\\", "/")
         IN IF e.Name = <<>> THEN Error("EmptyName", <<>>, "nil")
            ELSE IF HasPrefix(n, <<"/">>) \/ Contains(n, <<".", ".", "/">>)
                 THEN Error("UnsafeName", e.Name, "nil")
            ELSE IF Contains(e.Name, <<":">>) \/ IsAbs(e.Name)
                 THEN Error("UnsafeAbsName", e.Name, "nil")
            ELSE IF e.Name \in seen THEN Error("DuplicateName", e.Name, "nil")
            ELSE validateFrom(es, k + 1, seen \cup {e.Name})

validateEntries(es) == validateFrom(es, 1, {})

(***************************************************************************)
(* SafeJoin: the joined path and the error                                 *)
(***************************************************************************)
\* SafeJoin that compares with the base without the trailing separator.
SafeJoinNoSeparator(baseDir, relPath) ==
    IF baseDir = <<>> THEN [path |-> relPath, err |-> Nil]
    ELSE LET combined == Join(baseDir, relPath)
             absBase == Abs(baseDir)
             absCombined == Abs(combined)
         IN IF absCombined # absBase /\ ~HasPrefix(absCombined, absBase)
            THEN [path |-> <<>>, err |-> Error("PathEscape", relPath, "nil")]
            ELSE [path |-> absCombined, err |-> Nil]

SafeJoin(baseDir, relPath) ==
    IF baseDir = <<>> THEN [path |-> relPath, err |-> Nil]
    ELSE LET combined == Join(baseDir, relPath)
             absBase == Abs(baseDir)
             absCombined == Abs(combined)
             baseWithSep == IF HasSuffix(absBase, <<PathSeparator>>)
                            THEN absBase
                            ELSE absBase \o <<PathSeparator>>
         IN IF absCombined # absBase /\ ~HasPrefix(absCombined, baseWithSep)
            THEN [path |-> <<>>, err |-> Error("PathEscape", relPath, "nil")]
            ELSE [path |-> absCombined, err |-> Nil]

(***************************************************************************)
(* encoding/base64: StdEncoding and the streaming encoder b64              *)
(***************************************************************************)
Pad == 64

EncodeQuantum(b1, b2, b3) ==
    << b1 \div 4, (b1 % 4) * 16 + (b2 \div 16), (b2 % 16) * 4 + (b3 \div 64), b3 % 64 >>

\* The encoding of the complete 3-byte groups of bs.
RECURSIVE EncodeFull(_)
EncodeFull(bs) ==
    IF Len(bs) < 3 THEN <<>>
    ELSE EncodeQuantum(bs[1], bs[2], bs[3]) \o EncodeFull(SubSeq(bs, 4, Len(bs)))

\* The padded encoding of a trailing group of one or two bytes.
EncodeTail(bs) ==
    IF Len(bs) = 0 THEN <<>>
    ELSE IF Len(bs) = 1
         THEN << bs[1] \div 4, (bs[1] % 4) * 16, Pad, Pad >>
         ELSE << bs[1] \div 4, (bs[1] % 4) * 16 + (bs[2] \div 16), (bs[2] % 16) * 4, Pad >>

FullLen(bs) == (Len(bs) \div 3) * 3

\* base64.StdEncoding.EncodeToString
EncodeToString(bs) ==
    EncodeFull(SubSeq(bs, 1, FullLen(bs))) \o EncodeTail(SubSeq(bs, FullLen(bs) + 1, Len(bs)))

\* A base64 text can be decoded: whole groups of four, padding only at the
\* end of the last group.
Decodable(ss) ==
    /\ Len(ss) % 4 = 0
    /\ \A k \in 1..Len(ss) :
          ss[k] = Pad => /\ k >= Len(ss) - 1
                         /\ \A j \in k..Len(ss) : ss[j] = Pad

DecodeQuantum(s1, s2, s3, s4) ==
    LET b1 == s1 * 4 + (s2 \div 16)
        b2 == (s2 % 16) * 16 + (s3 \div 4)
        b3 == (s3 % 4) * 64 + s4
    IN IF s3 = Pad THEN <<b1>>
       ELSE IF s4 = Pad THEN <<b1, b2>>
       ELSE <<b1, b2, b3>>

\* base64.StdEncoding.DecodeString of a decodable text.
RECURSIVE DecodeString(_)
DecodeString(ss) ==
    IF Len(ss) < 4 THEN <<>>
    ELSE DecodeQuantum(ss[1], ss[2], ss[3], ss[4]) \o DecodeString(SubSeq(ss, 5, Len(ss)))

\* The encoder returned by base64.NewEncoder: buf holds the bytes of an
\* incomplete group, err is the sticky error of a failed write to the sink.
NewEncoder == [state |-> "open", buf |-> <<>>, err |-> FALSE]

NoEncoder == [state |-> "none", buf |-> <<>>, err |-> FALSE]

\* enc.Write(p) onto sink contents w; ok tells whether the sink accepts the
\* write.  Complete groups are encoded and written, the rest is kept.
EncoderWrite(enc, w, p, ok) ==
    IF enc.err THEN [enc |-> enc, w |-> w, err |-> TRUE]
    ELSE LET all == enc.buf \o p
             out == EncodeFull(SubSeq(all, 1, FullLen(all)))
             rest == SubSeq(all, FullLen(all) + 1, Len(all))
         IN IF out = <<>> THEN [enc |-> [enc EXCEPT !.buf = rest], w |-> w, err |-> FALSE]
            ELSE IF ok THEN [enc |-> [enc EXCEPT !.buf = rest], w |-> w \o out, err |-> FALSE]
            ELSE [enc |-> [enc EXCEPT !.err = TRUE], w |-> w, err |-> TRUE]

\* enc.Close(): flush the incomplete group with padding, report the sticky error.
EncoderClose(enc, w, ok) ==
    IF ~enc.err /\ enc.buf # <<>>
    THEN IF ok THEN [enc |-> [enc EXCEPT !.buf = <<>>, !.state = "closed"],
                     w |-> w \o EncodeTail(enc.buf), err |-> FALSE]
         ELSE [enc |-> [enc EXCEPT !.buf = <<>>, !.err = TRUE, !.state = "closed"],
               w |-> w, err |-> TRUE]
    ELSE [enc |-> [enc EXCEPT !.state = "closed"], w |-> w, err |-> enc.err]

(***************************************************************************)
(* compress/flate, as registered for zip.Deflate: a lossless coder of the  *)
(* entry's bytes (runs of equal bytes as <<length, byte>>, ended by 0).    *)
(***************************************************************************)
\* The compression levels of compress/flate the call names.
HuffmanOnly == -2

BestSpeed == 1

BestCompression == 9

\* flate.NewWriter(w, level) returns a writer for a level from HuffmanOnly
\* to BestCompression, and an error for any other.
NewWriterOk(level) == HuffmanOnly <= level /\ level <= BestCompression

RECURSIVE RunLen(_, _)
RunLen(bs, b) == IF bs # <<>> /\ Head(bs) = b THEN 1 + RunLen(Tail(bs), b) ELSE 0

RECURSIVE Deflate(_)
Deflate(bs) ==
    IF bs = <<>> THEN <<0>>
    ELSE LET n == RunLen(bs, Head(bs))
         IN <<n, Head(bs)>> \o Deflate(SubSeq(bs, n + 1, Len(bs)))

RECURSIVE Inflate(_)
Inflate(cs) ==
    IF Len(cs) < 2 \/ Head(cs) = 0 THEN <<>>
    ELSE [k \in 1..cs[1] |-> cs[2]] \o Inflate(SubSeq(cs, 3, Len(cs)))

(***************************************************************************)
(* archive/zip: the writer zw on top of the encoder, and the layout of the *)
(* archive it produces.  A record of the archive is a sequence of bytes:   *)
(*   local header       3, method, len(name), name                         *)
(*   entry data         stored or deflated bytes                           *)
(*   data descriptor    7, compressed size, uncompressed size              *)
(*   directory record   1, method, compressed size, uncompressed size,     *)
(*                      offset, len(name), name                            *)
(*   end of directory   5, number of records, offset of the directory      *)
(***************************************************************************)
Alphabet == << "a", "b", "c", ".", "/", "\\", ":", "p", "n", "g", "P", "N", "G", "t", "x" >>

CharCode(c) == CHOOSE k \in 1..Len(Alphabet) : Alphabet[k] = c

NameBytes(name) == [k \in 1..Len(name) |-> CharCode(name[k])]

BytesName(bs) == [k \in 1..Len(bs) |-> Alphabet[bs[k]]]

MethodCode(m) == IF m = "Store" THEN 0 ELSE 8

LocalHeader(h) ==
    <<3, MethodCode(h.Method), Len(h.Name)>> \o NameBytes(h.Name)

DataDescriptor(h) == <<7, h.csize, h.usize>>

DirRecord(h) ==
    <<1, MethodCode(h.Method), h.csize, h.usize, h.offset, Len(h.Name)>>
        \o NameBytes(h.Name)

RECURSIVE CentralDirectory(_)
CentralDirectory(dir) ==
    IF dir = <<>> THEN <<>> ELSE DirRecord(Head(dir)) \o CentralDirectory(Tail(dir))

EndOfDirectory(n, offset) == <<5, n, offset>>

\* zip.NewWriter: dir is the list of headers created so far, open tells
\* whether the last entry still accepts data, count is the number of bytes
\* written to the encoder, pend holds the bytes the deflater of the open
\* entry has taken in, log lists the records written, in order.
NewWriter ==
    [state |-> "open", dir |-> <<>>, open |-> FALSE, count |-> 0, pend |-> <<>>, log |-> <<>>]

NoWriter ==
    [state |-> "none", dir |-> <<>>, open |-> FALSE, count |-> 0, pend |-> <<>>, log |-> <<>>]

\* The operations below take and return the three layers of the output:
\* s.zw the archive writer, s.b64 the encoder, s.w the sink; err tells
\* whether the operation returned an error.
Layers(zw, enc, w, err) == [zw |-> zw, b64 |-> enc, w |-> w, err |-> err]

\* One write of the archive writer to the encoder (countWriter.Write).
cwWrite(s, bytes, ok, what) ==
    LET r == EncoderWrite(s.b64, s.w, bytes, ok)
    IN Layers(IF r.err THEN s.zw
              ELSE [s.zw EXCEPT !.count = @ + Len(bytes), !.log = @ \o what],
              r.enc, r.w, r.err)

LastHeader(zw) == zw.dir[Len(zw.dir)]

\* fileWriter.close: finish the compressed data of the open entry, fix its
\* sizes and write its data descriptor.
closeEntry(s, ok) ==
    LET h == LastHeader(s.zw)
        tail == IF h.Method = "Deflate" THEN Deflate(s.zw.pend) ELSE <<>>
        h2 == [h EXCEPT !.csize = @ + Len(tail)]
        zw2 == [s.zw EXCEPT !.dir[Len(s.zw.dir)] = h2, !.open = FALSE, !.pend = <<>>]
    IN cwWrite(Layers(zw2, s.b64, s.w, FALSE), tail \o DataDescriptor(h2), ok,
               << [op |-> "data", name |-> h.Name], [op |-> "descriptor", name |-> h.Name] >>)

\* zw.CreateHeader(hdr): close the previous entry, create the compressor
\* of the entry (for Deflate, the registered flate.NewWriter(w, lvl)),
\* record the header and write the local header.
CreateHeader(s, hdr, level, ok) ==
    LET s1 == IF s.zw.open THEN closeEntry(s, ok) ELSE s
    IN IF s1.err THEN s1
       ELSE IF hdr.Method = "Deflate" /\ ~NewWriterOk(level) THEN [s1 EXCEPT !.err = TRUE]
       ELSE LET h == [Name |-> hdr.Name, Method |-> hdr.Method,
                      offset |-> s1.zw.count, csize |-> 0, usize |-> 0]
                zw2 == [s1.zw EXCEPT !.dir = Append(@, h)]
                r == cwWrite(Layers(zw2, s1.b64, s1.w, FALSE), LocalHeader(h), ok,
                             << [op |-> "header", name |-> h.Name] >>)
            IN IF r.err THEN r
               ELSE [r EXCEPT !.zw.open = TRUE, !.zw.pend = <<>>]

\* ew.Write(p) on the writer CreateHeader returned: a stored entry passes
\* the bytes on, a deflated entry hands them to its deflater.
fileWrite(s, p, ok) ==
    LET h == LastHeader(s.zw)
        n == Len(s.zw.dir)
    IN IF h.Method = "Store"
       THEN LET r == cwWrite(s, p, ok, << [op |-> "data", name |-> h.Name] >>)
            IN IF r.err THEN r
               ELSE [r EXCEPT !.zw.dir[n].csize = @ + Len(p), !.zw.dir[n].usize = @ + Len(p)]
       ELSE [s EXCEPT !.zw.pend = @ \o p, !.zw.dir[n].usize = @ + Len(p), !.err = FALSE]

\* zw.Close(): close the open entry, then write the central directory and
\* the end-of-directory record.
WriterClose(s, ok) ==
    LET s1 == IF s.zw.open THEN closeEntry(s, ok) ELSE s
    IN IF s1.err THEN s1
       ELSE IF s1.zw.state = "closed" THEN [s1 EXCEPT !.err = TRUE]
       ELSE LET zw2 == [s1.zw EXCEPT !.state = "closed"]
                bytes == CentralDirectory(zw2.dir) \o EndOfDirectory(Len(zw2.dir), zw2.count)
            IN cwWrite(Layers(zw2, s1.b64, s1.w, FALSE), bytes, ok,
                       << [op |-> "directory", name |-> <<>>] >>)

(***************************************************************************)
(* Reading an archive back (zip.NewReader and File.Open): the files the    *)
(* central directory lists, each with its decompressed data.               *)
(***************************************************************************)
BadFile == [good |-> FALSE, Name |-> <<>>, Method |-> "Store", Data |-> <<>>]

\* The file of the directory record at position pos of bs.
ReadFile(bs, pos) ==
    IF pos + 5 > Len(bs) \/ bs[pos] # 1 THEN BadFile
    ELSE LET method == bs[pos + 1]
             csize == bs[pos + 2]
             usize == bs[pos + 3]
             off == bs[pos + 4]
             nl == bs[pos + 5]
             start == off + 4 + nl
         IN IF \/ pos + 5 + nl > Len(bs)
               \/ off + 3 + nl > Len(bs)
               \/ bs[off + 1] # 3
               \/ bs[off + 3] # nl
               \/ SubSeq(bs, off + 4, off + 3 + nl) # SubSeq(bs, pos + 6, pos + 5 + nl)
               \/ start + csize - 1 > Len(bs)
               \/ method \notin {0, 8}
            THEN BadFile
            ELSE LET raw == SubSeq(bs, start, start + csize - 1)
                     data == IF method = 8 THEN Inflate(raw) ELSE raw
                 IN [good |-> Len(data) = usize,
                     Name |-> BytesName(SubSeq(bs, pos + 6, pos + 5 + nl)),
                     Method |-> IF method = 0 THEN "Store" ELSE "Deflate",
                     Data |-> data]

RECURSIVE ReadDir(_, _, _)
ReadDir(bs, pos, n) ==
    IF n = 0 THEN <<>>
    ELSE LET file == ReadFile(bs, pos)
         IN IF ~file.good THEN <<file>>
            ELSE <<file>> \o ReadDir(bs, pos + 6 + Len(file.Name), n - 1)

RECURSIVE NameLens(_)
NameLens(files) == IF files = <<>> THEN 0 ELSE Len(Head(files).Name) + NameLens(Tail(files))

\* The archive in bs: good tells whether bs is a finalized, well-formed
\* archive, files lists its entries in directory order.
ReadArchive(bs) ==
    LET n == Len(bs)
    IN IF n < 3 \/ bs[n - 2] # 5 \/ bs[n] > n - 3
       THEN [good |-> FALSE, files |-> <<>>]
       ELSE LET files == ReadDir(bs, bs[n] + 1, bs[n - 1])
            IN [good |-> /\ \A k \in 1..Len(files) : files[k].good
                         /\ Len(files) = bs[n - 1]
                         /\ bs[n] + 6 * Len(files) + NameLens(files) = n - 3,
                files |-> files]

(***************************************************************************)
(* Inputs of one call of StreamZipToBase64Writer                           *)
(***************************************************************************)
NameSet ==
    { <<"a">>, <<"b", ".", "p", "n", "g">>, <<".", ".">>,
      <<>>, <<".", ".", "/", "a">>, <<".", ".", "\\", "a">>, <<"a", ".", ".", "/", "b">>,
      <<"/", "a">>, <<"\\", "a">>, <<"a", ":">> }

PathSet == { <<"f">>, <<".", ".", "/", "s">>, <<".", ".", "/", "b", "2", "/", "x">> }

\* The entries a caller may pass: every name, the name "a" with every path.
EntrySet ==
    { [Name |-> n, Path |-> <<"f">>] : n \in NameSet \ {<<".", ".">>} }
        \cup { [Name |-> <<"a">>, Path |-> <<".", ".", "/", "s">>],
               [Name |-> <<".", ".">>, Path |-> <<".", ".", "/", "b", "2", "/", "x">>] }

\* The entries of the calls that are followed through the loop: one entry
\* for each name the validation accepts, and for two it refuses.
CallEntrySet ==
    { e \in EntrySet :
        /\ e.Name \in { <<"a">>, <<"b", ".", "p", "n", "g">>, <<".", ".">>, <<>>, <<".", ".", "/", "a">> }
        /\ e.Path # <<".", ".", "/", "s">> }

\* The entries of the calls with a base directory: the entries with a name
\* the validation accepts, with every path.
BaseEntrySet ==
    { e \in EntrySet : e.Name \in { <<"a">>, <<"b", ".", "p", "n", "g">>, <<".", ".">> } }

SeqsUpTo(S, n) == UNION { [1..k -> S] : k \in 0..n }

\* Options.Filter: unset, or a predicate that rejects the names in reject.
FilterSet == { [set |-> FALSE, reject |-> {}], [set |-> TRUE, reject |-> {<<"a">>}] }

BaseDirSet == { <<>>, <<"/", "b">>, <<"b">> }

\* Options.CompressionLevel is left at its zero value.
OptionSet ==
    [SkipMissing : BOOLEAN, Filter : FilterSet, BaseDir : BaseDirSet, CompressionLevel : {0}]

\* The k-th byte of a source file.  A file is a prefix of one pattern of
\* bytes, so that a read is determined by its length.
FileByte(k) == IF k % 3 = 1 THEN 65 ELSE 200

\* The n bytes a file returns after it returned the first done bytes.
FileBytes(done, n) == [k \in 1..n |-> FileByte(done + k)]

\* len(buf) of copyWithContext
BufSize == 262144

Min(a, b) == IF a < b THEN a ELSE b

(***************************************************************************)
(* State                                                                   *)
(***************************************************************************)
VARIABLES
    entries,    \* the entry list of the call
    opts,       \* the options of the call
    ctx,        \* ctx.done: the context is cancelled; ctx.atCall: it was at the call
    pc,         \* the position of the call in its code
    i,          \* the position of the range loop in the entry list
    err,        \* the named result err
    f,          \* the source file of the current entry
    zw,         \* the archive writer
    b64,        \* the base64 encoder
    w,          \* the contents of the destination sink
    openlog,    \* the os.Open calls made, with their outcome
    delivered,  \* per entry, the bytes its source has returned from Read
    errlog,     \* the errors that occurred, in order of occurrence
    closelog,   \* the Close calls made, in order
    late,       \* the Open and Read calls started since ctx was cancelled
    last,       \* what Read and Write returned in the last step of the running copyWithContext
    lvl,        \* the compression level of the registered deflater
    sb,         \* the call of StreamZipToBase64 around the call, if there is one
    fs,         \* package filestream: the file each path names
    fentries,   \* the entry list of a call of StreamFilesToMap
    fopts,      \* the options of a call of StreamFilesToMap
    mc,         \* the locals of the call of StreamFilesToMap
    sc,         \* the locals of the call of StreamFileToBase64
    wc          \* the locals of the call of StreamFileToBase64Writer

\* The variables of package zipstream and those of package filestream.
zvars == <<entries, opts, ctx, pc, i, err, f, zw, b64, w, openlog, delivered, errlog, closelog, late, last, lvl, sb>>

fvars == <<fs, fentries, fopts, mc, sc, wc>>

vars == <<zvars, sb, fvars>>

NoFile == [open |-> FALSE, path |-> <<>>]

\* No step of copyWithContext was taken yet.
NoStep == [n |-> 0, rerr |-> "nil", werr |-> FALSE]

Out == Layers(zw, b64, w, FALSE)

\* package filestream: the locals of its calls before they start.
NoSuchFile == [kind |-> "missing", size |-> 0, data |-> <<>>]

IdleString ==
    [pc |-> "idle", path |-> <<>>, pos |-> 0, enc |-> NoEncoder, buf |-> <<>>, res |-> <<>>, err |-> "nil"]

IdleWriter ==
    [pc |-> "idle", path |-> <<>>, pos |-> 0, enc |-> NoEncoder, w |-> <<>>, err |-> "nil"]

NilMap == [nil |-> TRUE, map |-> [n \in {} |-> <<>>]]

IdleMap ==
    [pc |-> "idle", i |-> 0, path |-> <<>>, out |-> [n \in {} |-> <<>>],
     ret |-> NilMap, err |-> Nil, found |-> <<>>]

FileOptionsZero == [SkipMissing |-> FALSE, Filter |-> [set |-> FALSE, reject |-> {}], BaseDir |-> <<>>]

NoFileCall ==
    /\ fs = [p \in {} |-> NoSuchFile]
    /\ fentries = <<>>
    /\ fopts = FileOptionsZero
    /\ mc = IdleMap
    /\ sc = IdleString
    /\ wc = IdleWriter

\* StreamZipToBase64 is not called: the caller of StreamZipToBase64Writer
\* passes a sink of its own.
NoStringCall == [pc |-> "none", res |-> <<>>, err |-> Nil]

\* What a Write to the sink can return: a bytes.Buffer accepts every
\* write, the sink of a caller may refuse one.
SinkAccepts == IF sb.pc = "none" THEN BOOLEAN ELSE {TRUE}

\* The state of a call that has not started.
Idle ==
    /\ pc = "start"
    /\ i = 0
    /\ err = Nil
    /\ f = NoFile
    /\ zw = NoWriter
    /\ b64 = NoEncoder
    /\ w = <<>>
    /\ openlog = <<>>
    /\ delivered = [k \in 1..Len(entries) |-> <<>>]
    /\ errlog = <<>>
    /\ closelog = <<>>
    /\ late = 0
    /\ last = NoStep
    /\ lvl = 0
    /\ sb = NoStringCall

Init ==
    /\ entries \in SeqsUpTo(CallEntrySet, MaxEntries)
    /\ opts \in OptionSet
    /\ ctx \in { [done |-> d, atCall |-> d] : d \in BOOLEAN }
    /\ Idle
    /\ NoFileCall

\* Inputs for the validation: every name, with the options left at their
\* zero values.
InitNames ==
    /\ entries \in SeqsUpTo(EntrySet, MaxEntries)
    /\ opts \in [SkipMissing : {FALSE}, Filter : {[set |-> FALSE, reject |-> {}]},
                 BaseDir : {<<>>}, CompressionLevel : {0}]
    /\ ctx \in { [done |-> d, atCall |-> d] : d \in BOOLEAN }
    /\ Idle
    /\ NoFileCall

\* Inputs for the base directory: a base directory, absolute or relative,
\* and paths that stay below it and paths that leave it.
InitBase ==
    /\ entries \in SeqsUpTo(BaseEntrySet, MaxEntries)
    /\ opts \in { o \in OptionSet : o.BaseDir # <<>> }
    /\ ctx \in { [done |-> d, atCall |-> d] : d \in BOOLEAN }
    /\ Idle
    /\ NoFileCall

\* Inputs for the compression policy: names with and without an extension
\* of the stored set, in either case, and levels on both sides of the two
\* ends of the range of compress/flate.
PolicyNameSet ==
    { <<"a">>, <<"b", ".", "p", "n", "g">>, <<"c", ".", "P", "N", "G">> }

PolicyLevelSet ==
    { HuffmanOnly - 1, HuffmanOnly, 0, BestCompression, BestCompression + 1 }

InitPolicy ==
    /\ entries \in SeqsUpTo({ [Name |-> n, Path |-> <<"f">>] : n \in PolicyNameSet }, MaxEntries)
    /\ opts \in [SkipMissing : {FALSE}, Filter : {[set |-> FALSE, reject |-> {}]},
                 BaseDir : {<<>>}, CompressionLevel : PolicyLevelSet]
    /\ ctx \in { [done |-> d, atCall |-> d] : d \in BOOLEAN }
    /\ Idle
    /\ NoFileCall

\* The filter test with the predicate's verdict inverted.
FilterRejectsInverted(o, e) == o.Filter.set /\ e.Name \notin o.Filter.reject

\* opts.Filter != nil && !opts.Filter(e)
FilterRejects(o, e) == o.Filter.set /\ e.Name \in o.Filter.reject

\* A loop that walks the entry list from its end.
RangeIndexReversed(n, k) == n + 1 - k

\* The entry the k-th iteration of "for _, e := range entries" visits.
RangeIndex(n, k) == k

\* The loop head without the test of ctx.Err().
CancelledNever(c) == FALSE

\* ctx.Err() != nil
Cancelled(c) == c.done

\* The open-error test with "||" in place of "&&".
SkipsOpenErrorEither(o, res) == o.SkipMissing \/ res = "notexist"

\* opts.SkipMissing && errors.Is(openErr, os.ErrNotExist)
SkipsOpenError(o, res) == o.SkipMissing /\ res = "notexist"

Current == entries[RangeIndex(Len(entries), i)]

\* A level that is handed to the deflater as the caller gave it.
EffectiveLevelAsGiven(level) == level

\* lvl: the level of the options, or BestSpeed when it is out of range.
EffectiveLevel(level) ==
    IF level < HuffmanOnly \/ level > BestCompression THEN BestSpeed ELSE level

\* The deferred function without the test "err == nil".
DeferredErrLastWins(e, cerr, kind) == IF cerr THEN Error(kind, <<>>, "write") ELSE e

\* The error the deferred function leaves in err after a Close returned cerr.
DeferredErr(e, cerr, kind) == IF cerr /\ e = Nil THEN Error(kind, <<>>, "write") ELSE e

\* A copier that does not write the chunk a read returned together with io.EOF.
WritesChunkUnlessEOF(n, rerr) == n > 0 /\ rerr # "EOF"

\* A copier that looks at the read error before it writes the chunk.
WritesChunkUnlessError(n, rerr) == n > 0 /\ rerr = "nil"

\* copyWithContext writes the n bytes of a Read that returned rerr.
WritesChunk(n, rerr) == n > 0

(***************************************************************************)
(* StreamZipToBase64Writer                                                 *)
(***************************************************************************)
\* A call that creates the writers and registers the deferred closes
\* before it validates the entries.
ValidateAfterSetup ==
    /\ pc = "start"
    /\ b64' = NewEncoder
    /\ zw' = NewWriter
    /\ LET v == validateEntries(entries)
       IN IF v # Nil
          THEN /\ err' = v
               /\ errlog' = Append(errlog, v.kind)
               /\ pc' = "closezw"
               /\ UNCHANGED <<i, lvl>>
          ELSE /\ lvl' = EffectiveLevel(opts.CompressionLevel)
               /\ i' = 1
               /\ pc' = "loop"
               /\ UNCHANGED <<err, errlog>>
    /\ UNCHANGED <<entries, opts, ctx, f, w, openlog, delivered, closelog, late, last, sb, fvars>>

\* Validation, then the compression level, then creation of the encoder
\* and the archive writer.
Validate ==
    /\ pc = "start"
    /\ LET v == validateEntries(entries)
       IN IF v # Nil
          THEN /\ err' = v
               /\ errlog' = Append(errlog, v.kind)
               /\ pc' = "done"
               /\ UNCHANGED <<b64, zw, i, lvl>>
          ELSE /\ lvl' = EffectiveLevel(opts.CompressionLevel)
               /\ b64' = NewEncoder
               /\ zw' = NewWriter
               /\ i' = 1
               /\ pc' = "loop"
               /\ UNCHANGED <<err, errlog>>
    /\ UNCHANGED <<entries, opts, ctx, f, w, openlog, delivered, closelog, late, last, sb, fvars>>

\* The head of the range loop: end of the list, or the cancellation check.
LoopCheck ==
    /\ pc = "loop"
    /\ IF i > Len(entries)
       THEN /\ pc' = "closezw"
            /\ UNCHANGED <<err, errlog>>
       ELSE IF Cancelled(ctx)
       THEN /\ err' = Error("Cancelled", <<>>, "nil")
            /\ errlog' = Append(errlog, "Cancelled")
            /\ pc' = "closezw"
       ELSE /\ pc' = "entry"
            /\ UNCHANGED <<err, errlog>>
    /\ UNCHANGED <<entries, opts, ctx, i, f, zw, b64, w, openlog, delivered, closelog, late, last, lvl, sb, fvars>>

\* A loop that resolves the path of the entry before it asks the filter.
OpenEntryResolveFirst ==
    /\ pc = "entry"
    /\ LET e == Current
           j == IF opts.BaseDir # <<>> THEN SafeJoin(opts.BaseDir, e.Path)
                ELSE [path |-> e.Path, err |-> Nil]
       IN IF j.err # Nil
          THEN /\ err' = Error("UnsafePath", e.Path, j.err.kind)
               /\ errlog' = Append(errlog, "UnsafePath")
               /\ pc' = "closezw"
               /\ UNCHANGED <<i, f, openlog, late>>
          ELSE IF FilterRejects(opts, e)
          THEN /\ i' = i + 1
               /\ pc' = "loop"
               /\ UNCHANGED <<err, errlog, f, openlog, late>>
          ELSE \E res \in {"ok", "notexist", "other"} :
               /\ openlog' = Append(openlog, [name |-> e.Name, path |-> j.path, res |-> res])
               /\ late' = IF ctx.done THEN late + 1 ELSE late
               /\ IF res = "ok"
                  THEN /\ f' = [open |-> TRUE, path |-> j.path]
                       /\ pc' = "header"
                       /\ UNCHANGED <<i, err, errlog>>
                  ELSE IF SkipsOpenError(opts, res)
                  THEN /\ i' = i + 1
                       /\ pc' = "loop"
                       /\ UNCHANGED <<f, err, errlog>>
                  ELSE /\ err' = Error("OpenFailed", j.path, res)
                       /\ errlog' = Append(errlog, "OpenFailed")
                       /\ pc' = "closezw"
                       /\ UNCHANGED <<i, f>>
    /\ UNCHANGED <<entries, opts, ctx, zw, b64, w, delivered, closelog, last, lvl, sb, fvars>>

\* Filter, resolution of the path, os.Open.
OpenEntry ==
    /\ pc = "entry"
    /\ LET e == Current
           j == IF opts.BaseDir # <<>> THEN SafeJoin(opts.BaseDir, e.Path)
                ELSE [path |-> e.Path, err |-> Nil]
       IN IF FilterRejects(opts, e)
          THEN /\ i' = i + 1
               /\ pc' = "loop"
               /\ UNCHANGED <<err, errlog, f, openlog, late>>
          ELSE IF j.err # Nil
          THEN /\ err' = Error("UnsafePath", e.Path, j.err.kind)
               /\ errlog' = Append(errlog, "UnsafePath")
               /\ pc' = "closezw"
               /\ UNCHANGED <<i, f, openlog, late>>
          ELSE \E res \in {"ok", "notexist", "other"} :
               /\ openlog' = Append(openlog, [name |-> e.Name, path |-> j.path, res |-> res])
               /\ late' = IF ctx.done THEN late + 1 ELSE late
               /\ IF res = "ok"
                  THEN /\ f' = [open |-> TRUE, path |-> j.path]
                       /\ pc' = "header"
                       /\ UNCHANGED <<i, err, errlog>>
                  ELSE IF SkipsOpenError(opts, res)
                  THEN /\ i' = i + 1
                       /\ pc' = "loop"
                       /\ UNCHANGED <<f, err, errlog>>
                  ELSE /\ err' = Error("OpenFailed", j.path, res)
                       /\ errlog' = Append(errlog, "OpenFailed")
                       /\ pc' = "closezw"
                       /\ UNCHANGED <<i, f>>
    /\ UNCHANGED <<entries, opts, ctx, zw, b64, w, delivered, closelog, last, lvl, sb, fvars>>

\* The file header and zw.CreateHeader (the modification time of the
\* header is left out of the model).
WriteHeader ==
    /\ pc = "header"
    /\ \E ok \in SinkAccepts :
         LET e == Current
             hdr == [Name |-> e.Name,
                     Method |-> IF isPreCompressed(e.Name) THEN "Store" ELSE "Deflate"]
             r == CreateHeader(Out, hdr, lvl, ok)
         IN /\ zw' = r.zw
            /\ b64' = r.b64
            /\ w' = r.w
            /\ IF r.err
               THEN /\ err' = Error("CreateEntryFailed", e.Name, "write")
                    /\ errlog' = Append(errlog, "CreateEntryFailed")
                    /\ pc' = "closefile"
               ELSE /\ pc' = "copy"
                    /\ UNCHANGED <<err, errlog>>
    /\ UNCHANGED <<entries, opts, ctx, i, f, openlog, delivered, closelog, late, last, lvl, sb, fvars>>

\* A copier that goes on to the read without consulting the context.
CopyCheckBlind ==
    /\ pc = "copy"
    /\ pc' = "read"
    /\ UNCHANGED <<entries, opts, ctx, i, err, errlog, f, zw, b64, w, openlog, delivered, closelog, late, last, lvl, sb, fvars>>

\* copyWithContext: the cancellation check before a read.
CopyCheck ==
    /\ pc = "copy"
    /\ IF ctx.done
       THEN /\ err' = Error("WriteEntryFailed", Current.Name, "Cancelled")
            /\ errlog' = Append(errlog, "WriteEntryFailed")
            /\ pc' = "closefile"
       ELSE /\ pc' = "read"
            /\ UNCHANGED <<err, errlog>>
    /\ UNCHANGED <<entries, opts, ctx, i, f, zw, b64, w, openlog, delivered, closelog, late, last, lvl, sb, fvars>>

\* A copier that looks at the error of the read before it looks at the
\* error of the write.
CopyChunkReadErrorFirst ==
    /\ pc = "read"
    /\ LET k == RangeIndex(Len(entries), i)
       IN \E n \in 0..Min(BufSize, MaxData - Len(delivered[k])),
             rerr \in {"nil", "EOF", "error"}, ok \in SinkAccepts :
          LET chunk == FileBytes(Len(delivered[k]), n) IN
            /\ ~(n = 0 /\ rerr = "nil")
            /\ delivered' = [delivered EXCEPT ![k] = @ \o chunk]
            /\ late' = IF ctx.done THEN late + 1 ELSE late
            /\ LET r == IF WritesChunk(Len(chunk), rerr) THEN fileWrite(Out, chunk, ok) ELSE Out
               IN /\ zw' = r.zw
                  /\ b64' = r.b64
                  /\ w' = r.w
                  /\ last' = [n |-> n, rerr |-> rerr, werr |-> r.err]
                  /\ IF rerr = "error"
                     THEN /\ err' = Error("WriteEntryFailed", Current.Name, "read")
                          /\ errlog' = Append(errlog, "WriteEntryFailed")
                          /\ pc' = "closefile"
                     ELSE IF r.err
                     THEN /\ err' = Error("WriteEntryFailed", Current.Name, "write")
                          /\ errlog' = Append(errlog, "WriteEntryFailed")
                          /\ pc' = "closefile"
                     ELSE IF rerr = "EOF"
                     THEN /\ pc' = "closefile"
                          /\ UNCHANGED <<err, errlog>>
                     ELSE /\ pc' = "copy"
                          /\ UNCHANGED <<err, errlog>>
    /\ UNCHANGED <<entries, opts, ctx, i, f, openlog, closelog, lvl, sb, fvars>>

\* A copier that goes back to the head of its loop when a read returns
\* io.EOF, instead of leaving the loop.
CopyChunkReadsOnAfterEOF ==
    /\ pc = "read"
    /\ LET k == RangeIndex(Len(entries), i)
       IN \E n \in 0..Min(BufSize, MaxData - Len(delivered[k])),
             rerr \in {"nil", "EOF", "error"}, ok \in SinkAccepts :
          LET chunk == FileBytes(Len(delivered[k]), n) IN
            /\ ~(n = 0 /\ rerr = "nil")
            /\ delivered' = [delivered EXCEPT ![k] = @ \o chunk]
            /\ late' = IF ctx.done THEN late + 1 ELSE late
            /\ LET r == IF WritesChunk(Len(chunk), rerr) THEN fileWrite(Out, chunk, ok) ELSE Out
               IN /\ zw' = r.zw
                  /\ b64' = r.b64
                  /\ w' = r.w
                  /\ last' = [n |-> n, rerr |-> rerr, werr |-> r.err]
                  /\ IF r.err
                     THEN /\ err' = Error("WriteEntryFailed", Current.Name, "write")
                          /\ errlog' = Append(errlog, "WriteEntryFailed")
                          /\ pc' = "closefile"
                     ELSE IF rerr = "EOF"
                     THEN /\ pc' = "copy"
                          /\ UNCHANGED <<err, errlog>>
                     ELSE IF rerr # "nil"
                     THEN /\ err' = Error("WriteEntryFailed", Current.Name, "read")
                          /\ errlog' = Append(errlog, "WriteEntryFailed")
                          /\ pc' = "closefile"
                     ELSE /\ pc' = "copy"
                          /\ UNCHANGED <<err, errlog>>
    /\ UNCHANGED <<entries, opts, ctx, i, f, openlog, closelog, lvl, sb, fvars>>

\* copyWithContext: one src.Read and the dst.Write of what it returned.
CopyChunk ==
    /\ pc = "read"
    /\ LET k == RangeIndex(Len(entries), i)
       IN \E n \in 0..Min(BufSize, MaxData - Len(delivered[k])),
             rerr \in {"nil", "EOF", "error"}, ok \in SinkAccepts :
          LET chunk == FileBytes(Len(delivered[k]), n) IN
            /\ ~(n = 0 /\ rerr = "nil")
            /\ delivered' = [delivered EXCEPT ![k] = @ \o chunk]
            /\ late' = IF ctx.done THEN late + 1 ELSE late
            /\ LET r == IF WritesChunk(Len(chunk), rerr) THEN fileWrite(Out, chunk, ok) ELSE Out
               IN /\ zw' = r.zw
                  /\ b64' = r.b64
                  /\ w' = r.w
                  /\ last' = [n |-> n, rerr |-> rerr, werr |-> r.err]
                  /\ IF r.err
                     THEN /\ err' = Error("WriteEntryFailed", Current.Name, "write")
                          /\ errlog' = Append(errlog, "WriteEntryFailed")
                          /\ pc' = "closefile"
                     ELSE IF rerr = "EOF"
                     THEN /\ pc' = "closefile"
                          /\ UNCHANGED <<err, errlog>>
                     ELSE IF rerr # "nil"
                     THEN /\ err' = Error("WriteEntryFailed", Current.Name, "read")
                          /\ errlog' = Append(errlog, "WriteEntryFailed")
                          /\ pc' = "closefile"
                     ELSE /\ pc' = "copy"
                          /\ UNCHANGED <<err, errlog>>
    /\ UNCHANGED <<entries, opts, ctx, i, f, openlog, closelog, lvl, sb, fvars>>

\* A closure that calls f.Close as its last statement instead of deferring
\* it: an early return leaves the file open.
CloseFileAtEnd ==
    /\ pc = "closefile"
    /\ IF err # Nil
       THEN /\ pc' = "closezw"
            /\ UNCHANGED <<i, f, closelog>>
       ELSE /\ f' = [f EXCEPT !.open = FALSE]
            /\ closelog' = Append(closelog, "f")
            /\ pc' = "loop"
            /\ i' = i + 1
    /\ last' = NoStep
    /\ UNCHANGED <<entries, opts, ctx, err, zw, b64, w, openlog, delivered, errlog, late, lvl, sb, fvars>>

\* A loop without "if err != nil { return err }" after the closure: it goes
\* on to the next entry whatever the closure left in err.
CloseFileContinues ==
    /\ pc = "closefile"
    /\ f' = [f EXCEPT !.open = FALSE]
    /\ closelog' = Append(closelog, "f")
    /\ last' = NoStep
    /\ pc' = "loop"
    /\ i' = i + 1
    /\ UNCHANGED <<entries, opts, ctx, err, zw, b64, w, openlog, delivered, errlog, late, lvl, sb, fvars>>

\* The deferred f.Close, then the check of err after the entry.
CloseFile ==
    /\ pc = "closefile"
    /\ f' = [f EXCEPT !.open = FALSE]
    /\ closelog' = Append(closelog, "f")
    /\ last' = NoStep
    /\ IF err # Nil
       THEN /\ pc' = "closezw"
            /\ UNCHANGED i
       ELSE /\ pc' = "loop"
            /\ i' = i + 1
    /\ UNCHANGED <<entries, opts, ctx, err, zw, b64, w, openlog, delivered, errlog, late, lvl, sb, fvars>>

\* A deferred function that returns as soon as zw.Close fails.
CloseWriterOnly ==
    /\ pc = "closezw"
    /\ \E ok \in SinkAccepts :
         LET r == WriterClose(Out, ok)
         IN /\ zw' = r.zw
            /\ b64' = r.b64
            /\ w' = r.w
            /\ err' = DeferredErr(err, r.err, "CloseZip")
            /\ errlog' = IF r.err THEN Append(errlog, "CloseZip") ELSE errlog
            /\ pc' = IF r.err THEN "done" ELSE "closeb64"
    /\ closelog' = Append(closelog, "zw")
    /\ UNCHANGED <<entries, opts, ctx, i, f, openlog, delivered, late, last, lvl, sb, fvars>>

\* A deferred function that only finalizes the archive of a call that has
\* not failed.
CloseWriterUnlessFailed ==
    /\ pc = "closezw"
    /\ \E ok \in SinkAccepts :
         LET r == IF err # Nil THEN Out ELSE WriterClose(Out, ok)
         IN /\ zw' = r.zw
            /\ b64' = r.b64
            /\ w' = r.w
            /\ err' = DeferredErr(err, r.err, "CloseZip")
            /\ errlog' = IF r.err THEN Append(errlog, "CloseZip") ELSE errlog
    /\ closelog' = Append(closelog, "zw")
    /\ pc' = "closeb64"
    /\ UNCHANGED <<entries, opts, ctx, i, f, openlog, delivered, late, last, lvl, sb, fvars>>

\* Deferred: zw.Close.
CloseWriter ==
    /\ pc = "closezw"
    /\ \E ok \in SinkAccepts :
         LET r == WriterClose(Out, ok)
         IN /\ zw' = r.zw
            /\ b64' = r.b64
            /\ w' = r.w
            /\ err' = DeferredErr(err, r.err, "CloseZip")
            /\ errlog' = IF r.err THEN Append(errlog, "CloseZip") ELSE errlog
    /\ closelog' = Append(closelog, "zw")
    /\ pc' = "closeb64"
    /\ UNCHANGED <<entries, opts, ctx, i, f, openlog, delivered, late, last, lvl, sb, fvars>>

\* Deferred: b64.Close, then the return.
CloseEncoder ==
    /\ pc = "closeb64"
    /\ \E ok \in SinkAccepts :
         LET r == EncoderClose(b64, w, ok)
         IN /\ b64' = r.enc
            /\ w' = r.w
            /\ err' = DeferredErr(err, r.err, "CloseBase64")
            /\ errlog' = IF r.err THEN Append(errlog, "CloseBase64") ELSE errlog
    /\ closelog' = Append(closelog, "b64")
    /\ pc' = "done"
    /\ UNCHANGED <<entries, opts, ctx, i, f, zw, openlog, delivered, late, last, lvl, sb, fvars>>

\* The caller, or a deadline, cancels the context while the call runs.
Cancel ==
    /\ pc \notin {"start", "done"}
    /\ ~ctx.done
    /\ ctx' = [ctx EXCEPT !.done = TRUE]
    /\ UNCHANGED <<entries, opts, pc, i, err, f, zw, b64, w, openlog, delivered, errlog, closelog, late, last, lvl, sb, fvars>>

Next ==
    \/ Validate
    \/ LoopCheck
    \/ OpenEntry
    \/ WriteHeader
    \/ CopyCheck
    \/ CopyChunk
    \/ CloseFile
    \/ CloseWriter
    \/ CloseEncoder
    \/ Cancel

Spec == Init /\ [][Next]_vars

\* The same call, on the inputs for the validation.
SpecNames == InitNames /\ [][Next]_vars

\* The same call, on the inputs for the base directory.
SpecBase == InitBase /\ [][Next]_vars

\* The same call, on the inputs for the compression policy.
SpecPolicy == InitPolicy /\ [][Next]_vars

\* The steps of the call itself up to the calls into archive/zip, which the
\* goroutine that runs it keeps taking until it returns; Cancel is a step
\* of the caller.
Step ==
    \/ Validate
    \/ LoopCheck
    \/ OpenEntry
    \/ CopyCheck
    \/ CopyChunk
    \/ CloseFile
    \/ CloseEncoder

\* zw.CreateHeader returns: the step WriteHeader, told by the positions
\* it leads to.
CreateHeaderReturns == pc = "header" /\ pc' \in {"copy", "closefile"}

\* zw.Close returns: the step CloseWriter, told by the position it leads to.
CloseReturns == pc = "closezw" /\ pc' = "closeb64"

\* Inputs for the termination: lists of entries with a deflated and a
\* stored name and one the validation refuses, with and without a filter
\* and SkipMissing, the context cancelled before the call or not.
LiveEntrySet ==
    { [Name |-> n, Path |-> <<"f">>] : n \in { <<"a">>, <<"b", ".", "p", "n", "g">>, <<>> } }

InitLive ==
    /\ entries \in SeqsUpTo(LiveEntrySet, MaxEntries)
    /\ opts \in { o \in OptionSet : o.BaseDir = <<>> }
    /\ ctx \in { [done |-> d, atCall |-> d] : d \in BOOLEAN }
    /\ Idle
    /\ NoFileCall

\* The call when the goroutine that runs it is scheduled again and again,
\* and every Read and Write it makes returns.
SpecLive ==
    /\ InitLive
    /\ [][Next]_vars
    /\ WF_vars(Step)
    /\ WF_pc(CreateHeaderReturns)
    /\ WF_pc(CloseReturns)

\* Inputs for the validation under options: names the validation accepts
\* and refuses, a filter that rejects every name but one, SkipMissing.
OptionsNameSet ==
    { <<"a">>, <<"b", ".", "p", "n", "g">>, <<".", ".">>, <<".", ".", "/", "a">>, <<>> }

OptionsFilterSet ==
    { [set |-> FALSE, reject |-> {}],
      [set |-> TRUE, reject |-> OptionsNameSet \ {<<"b", ".", "p", "n", "g">>}] }

InitOptions ==
    /\ entries \in SeqsUpTo({ [Name |-> n, Path |-> <<"f">>] : n \in OptionsNameSet }, MaxEntries)
    /\ opts \in [SkipMissing : BOOLEAN, Filter : OptionsFilterSet,
                 BaseDir : {<<>>}, CompressionLevel : {0}]
    /\ ctx \in { [done |-> d, atCall |-> d] : d \in BOOLEAN }
    /\ Idle
    /\ NoFileCall

\* The same call, on the inputs for the validation under options.
SpecOptions == InitOptions /\ [][Next]_vars

\* StreamZipToBase64: var buf io.ReadWriter = &bytes.Buffer{}, then the call
\* of StreamZipToBase64Writer with context.Background() and buf.
StreamZipToBase64Call ==
    /\ sb.pc = "none"
    /\ pc = "start"
    /\ sb' = [sb EXCEPT !.pc = "call"]
    /\ UNCHANGED <<entries, opts, ctx, pc, i, err, f, zw, b64, w, openlog, delivered, errlog, closelog, late, last, lvl, fvars>>

\* A variant that returns what the buffer holds together with the error.
StreamZipToBase64ReturnsPartial ==
    /\ sb.pc = "call"
    /\ pc = "done"
    /\ sb' = [pc |-> "done", res |-> w, err |-> err]
    /\ UNCHANGED <<entries, opts, ctx, pc, i, err, f, zw, b64, w, openlog, delivered, errlog, closelog, late, last, lvl, fvars>>

\* if err != nil { return "", err }; return buf.(*bytes.Buffer).String(), nil
StreamZipToBase64Return ==
    /\ sb.pc = "call"
    /\ pc = "done"
    /\ sb' = IF err # Nil THEN [pc |-> "done", res |-> <<>>, err |-> err]
             ELSE [pc |-> "done", res |-> w, err |-> Nil]
    /\ UNCHANGED <<entries, opts, ctx, pc, i, err, f, zw, b64, w, openlog, delivered, errlog, closelog, late, last, lvl, fvars>>

\* The calls of StreamZipToBase64: context.Background() is never cancelled.
InitToString ==
    /\ entries \in SeqsUpTo(CallEntrySet, MaxEntries)
    /\ opts \in OptionSet
    /\ ctx = [done |-> FALSE, atCall |-> FALSE]
    /\ Idle
    /\ NoFileCall

\* StreamZipToBase64 and, inside it, the steps of StreamZipToBase64Writer;
\* nothing can cancel the context.
NextToString ==
    \/ StreamZipToBase64Call
    \/ /\ sb.pc = "call"
       /\ \/ Validate
          \/ LoopCheck
          \/ OpenEntry
          \/ WriteHeader
          \/ CopyCheck
          \/ CopyChunk
          \/ CloseFile
          \/ CloseWriter
          \/ CloseEncoder
    \/ StreamZipToBase64Return

SpecToString == InitToString /\ [][NextToString]_vars

(***************************************************************************)
(* The older copy of the package (src/unnamed/part_002): its validation    *)
(* only refuses an empty or a repeated name, and it copies an entry with   *)
(* io.Copy.  The rest of its StreamZipToBase64Writer is the same code.     *)
(***************************************************************************)
RECURSIVE validateOlderFrom(_, _, _)
validateOlderFrom(es, k, seen) ==
    IF k > Len(es) THEN Nil
    ELSE LET e == es[k]
         IN IF e.Name = <<>> THEN Error("EmptyName", <<>>, "nil")
            ELSE IF e.Name \in seen THEN Error("DuplicateName", e.Name, "nil")
            ELSE validateOlderFrom(es, k + 1, seen \cup {e.Name})

validateEntriesOlder(es) == validateOlderFrom(es, 1, {})

ValidateOlder ==
    /\ pc = "start"
    /\ LET v == validateEntriesOlder(entries)
       IN IF v # Nil
          THEN /\ err' = v
               /\ errlog' = Append(errlog, v.kind)
               /\ pc' = "done"
               /\ UNCHANGED <<b64, zw, i, lvl>>
          ELSE /\ lvl' = EffectiveLevel(opts.CompressionLevel)
               /\ b64' = NewEncoder
               /\ zw' = NewWriter
               /\ i' = 1
               /\ pc' = "loop"
               /\ UNCHANGED <<err, errlog>>
    /\ UNCHANGED <<entries, opts, ctx, f, w, openlog, delivered, closelog, late, last, sb, fvars>>

\* io.Copy(ew, f): one src.Read and the dst.Write of what it returned; the
\* context is not consulted.
CopyOlder ==
    /\ pc = "copy"
    /\ LET k == RangeIndex(Len(entries), i)
       IN \E n \in 0..Min(BufSize, MaxData - Len(delivered[k])),
             rerr \in {"nil", "EOF", "error"}, ok \in SinkAccepts :
          LET chunk == FileBytes(Len(delivered[k]), n) IN
            /\ ~(n = 0 /\ rerr = "nil")
            /\ delivered' = [delivered EXCEPT ![k] = @ \o chunk]
            /\ late' = IF ctx.done THEN late + 1 ELSE late
            /\ LET r == IF n > 0 THEN fileWrite(Out, chunk, ok) ELSE Out
               IN /\ zw' = r.zw
                  /\ b64' = r.b64
                  /\ w' = r.w
                  /\ last' = [n |-> n, rerr |-> rerr, werr |-> r.err]
                  /\ IF r.err
                     THEN /\ err' = Error("WriteEntryFailed", Current.Name, "write")
                          /\ errlog' = Append(errlog, "WriteEntryFailed")
                          /\ pc' = "closefile"
                     ELSE IF rerr = "EOF"
                     THEN /\ pc' = "closefile"
                          /\ UNCHANGED <<err, errlog>>
                     ELSE IF rerr # "nil"
                     THEN /\ err' = Error("WriteEntryFailed", Current.Name, "read")
                          /\ errlog' = Append(errlog, "WriteEntryFailed")
                          /\ pc' = "closefile"
                     ELSE /\ pc' = "copy"
                          /\ UNCHANGED <<err, errlog>>
    /\ UNCHANGED <<entries, opts, ctx, i, f, openlog, closelog, lvl, sb, fvars>>

OlderEntrySet ==
    { [Name |-> n, Path |-> <<"f">>] :
        n \in { <<"a">>, <<"b", ".", "p", "n", "g">>, <<".", ".", "/", "a">>, <<>> } }

InitOlder ==
    /\ entries \in SeqsUpTo(OlderEntrySet, MaxEntries)
    /\ opts \in [SkipMissing : BOOLEAN, Filter : {[set |-> FALSE, reject |-> {}]},
                 BaseDir : {<<>>}, CompressionLevel : {0}]
    /\ ctx \in { [done |-> d, atCall |-> d] : d \in BOOLEAN }
    /\ Idle
    /\ NoFileCall

NextOlder ==
    \/ ValidateOlder
    \/ LoopCheck
    \/ OpenEntry
    \/ WriteHeader
    \/ CopyOlder
    \/ CloseFile
    \/ CloseWriter
    \/ CloseEncoder
    \/ Cancel

SpecOlder == InitOlder /\ [][NextOlder]_vars

(***************************************************************************)
(* package filestream: StreamFileToBase64, StreamFileToBase64Writer and    *)
(* StreamFilesToMap                                                        *)
(***************************************************************************)
\* const smallFileThreshold = 8 << 20
smallFileThreshold == 8388608

\* len(copyBuf) of StreamFileToBase64
copyBufLen == 262144

\* The files a path can name.  kind: a readable file, no file at all, or a
\* file that os.Stat finds and that cannot be opened.  size is what os.Stat
\* reports; data are the bytes the reads return, for a file above the
\* threshold the bytes up to the end of file of this run.
FileSet(maxLen) ==
    { NoSuchFile }
    \cup { [kind |-> "locked", size |-> s, data |-> <<>>] : s \in {0, smallFileThreshold + 1} }
    \cup { [kind |-> "file", size |-> s, data |-> FileBytes(0, n)] :
             <<n, s>> \in { p \in (0..maxLen) \X (0..maxLen \cup {smallFileThreshold + 1}) :
                              p[2] = p[1] \/ p[2] > smallFileThreshold } }

\* The result of one f.Read at offset pos: n bytes and nil, io.EOF once the
\* data are exhausted, or another error.
FileReads(fl, pos, bufLen) ==
    { r \in [n : 0..Min(bufLen, Len(fl.data) - pos), rerr : {"nil", "EOF", "error"}] :
        /\ ~(r.n = 0 /\ r.rerr = "nil")
        /\ r.rerr = "EOF" => pos + r.n = Len(fl.data) }

\* fi.Size() <= smallFileThreshold
IsSmallFile(fl) == fl.size <= smallFileThreshold

\* fi, err := os.Stat(path), and the choice of the path by the size.
StringStat ==
    /\ sc.pc = "stat"
    /\ sc' = IF fs[sc.path].kind = "missing" THEN [sc EXCEPT !.pc = "done", !.err = "notexist"]
             ELSE IF IsSmallFile(fs[sc.path]) THEN [sc EXCEPT !.pc = "readfile"]
             ELSE [sc EXCEPT !.pc = "open"]
    /\ UNCHANGED <<zvars, fs, fentries, fopts, mc, wc>>

\* A small path that returns the text of the complete groups only.
StringReadFileUnpadded ==
    /\ sc.pc = "readfile"
    /\ sc' = IF fs[sc.path].kind # "file" THEN [sc EXCEPT !.pc = "done", !.err = "other"]
             ELSE [sc EXCEPT !.pc = "done",
                             !.res = EncodeFull(SubSeq(fs[sc.path].data, 1, FullLen(fs[sc.path].data)))]
    /\ UNCHANGED <<zvars, fs, fentries, fopts, mc, wc>>

\* b, err := os.ReadFile(path); return base64.StdEncoding.EncodeToString(b), nil
StringReadFile ==
    /\ sc.pc = "readfile"
    /\ sc' = IF fs[sc.path].kind # "file" THEN [sc EXCEPT !.pc = "done", !.err = "other"]
             ELSE [sc EXCEPT !.pc = "done", !.res = EncodeToString(fs[sc.path].data)]
    /\ UNCHANGED <<zvars, fs, fentries, fopts, mc, wc>>

\* f, err := os.Open(path); buf and enc are created.
StringOpen ==
    /\ sc.pc = "open"
    /\ sc' = IF fs[sc.path].kind # "file" THEN [sc EXCEPT !.pc = "done", !.err = "other"]
             ELSE [sc EXCEPT !.pc = "copy", !.pos = 0, !.enc = NewEncoder, !.buf = <<>>]
    /\ UNCHANGED <<zvars, fs, fentries, fopts, mc, wc>>

\* One round of io.CopyBuffer(enc, f, copyBuf).  A write into the bytes.Buffer
\* cannot fail.  A read error closes enc and returns the empty string.
StringCopy ==
    /\ sc.pc = "copy"
    /\ \E rd \in FileReads(fs[sc.path], sc.pos, copyBufLen) :
          LET chunk == SubSeq(fs[sc.path].data, sc.pos + 1, sc.pos + rd.n)
              r == IF rd.n > 0 THEN EncoderWrite(sc.enc, sc.buf, chunk, TRUE)
                   ELSE [enc |-> sc.enc, w |-> sc.buf, err |-> FALSE]
              c == EncoderClose(r.enc, r.w, TRUE)
          IN sc' = IF rd.rerr = "EOF"
                   THEN [sc EXCEPT !.pc = "close", !.pos = @ + rd.n, !.enc = r.enc, !.buf = r.w]
                   ELSE IF rd.rerr # "nil"
                   THEN [sc EXCEPT !.pc = "done", !.pos = @ + rd.n, !.enc = c.enc, !.buf = c.w,
                                   !.err = "other"]
                   ELSE [sc EXCEPT !.pos = @ + rd.n, !.enc = r.enc, !.buf = r.w]
    /\ UNCHANGED <<zvars, fs, fentries, fopts, mc, wc>>

\* if err := enc.Close(); ...; return buf.String(), nil
StringClose ==
    /\ sc.pc = "close"
    /\ LET c == EncoderClose(sc.enc, sc.buf, TRUE)
       IN sc' = IF c.err THEN [sc EXCEPT !.pc = "done", !.enc = c.enc, !.buf = c.w, !.err = "other"]
                ELSE [sc EXCEPT !.pc = "done", !.enc = c.enc, !.buf = c.w, !.res = c.w]
    /\ UNCHANGED <<zvars, fs, fentries, fopts, mc, wc>>

\* StreamFileToBase64Writer: f, err := os.Open(path); enc is created on w.
WriterFileOpen ==
    /\ wc.pc = "open"
    /\ wc' = IF fs[wc.path].kind = "missing" THEN [wc EXCEPT !.pc = "done", !.err = "notexist"]
             ELSE IF fs[wc.path].kind # "file" THEN [wc EXCEPT !.pc = "done", !.err = "other"]
             ELSE [wc EXCEPT !.pc = "copy", !.pos = 0, !.enc = NewEncoder]
    /\ UNCHANGED <<zvars, fs, fentries, fopts, mc, sc>>

\* One round of io.Copy(enc, f), whose buffer holds 32 KiB.  The sink w may
\* refuse a write.  On an error enc is closed and the error is returned.
WriterFileCopy ==
    /\ wc.pc = "copy"
    /\ \E rd \in FileReads(fs[wc.path], wc.pos, 32 * 1024), ok \in BOOLEAN :
          LET chunk == SubSeq(fs[wc.path].data, wc.pos + 1, wc.pos + rd.n)
              r == IF rd.n > 0 THEN EncoderWrite(wc.enc, wc.w, chunk, ok)
                   ELSE [enc |-> wc.enc, w |-> wc.w, err |-> FALSE]
              c == EncoderClose(r.enc, r.w, ok)
          IN wc' = IF r.err \/ rd.rerr = "error"
                   THEN [wc EXCEPT !.pc = "done", !.pos = @ + rd.n, !.enc = c.enc, !.w = c.w,
                                   !.err = "other"]
                   ELSE IF rd.rerr = "EOF"
                   THEN [wc EXCEPT !.pc = "close", !.pos = @ + rd.n, !.enc = r.enc, !.w = r.w]
                   ELSE [wc EXCEPT !.pos = @ + rd.n, !.enc = r.enc, !.w = r.w]
    /\ UNCHANGED <<zvars, fs, fentries, fopts, mc, sc>>

\* return enc.Close()
WriterFileClose ==
    /\ wc.pc = "close"
    /\ \E ok \in BOOLEAN :
          LET c == EncoderClose(wc.enc, wc.w, ok)
          IN wc' = [wc EXCEPT !.pc = "done", !.enc = c.enc, !.w = c.w,
                              !.err = IF c.err THEN "other" ELSE "nil"]
    /\ UNCHANGED <<zvars, fs, fentries, fopts, mc, sc>>

\* The zipstream variables while only package filestream runs.
NoZipCall ==
    /\ entries = <<>>
    /\ opts = [SkipMissing |-> FALSE, Filter |-> [set |-> FALSE, reject |-> {}],
               BaseDir |-> <<>>, CompressionLevel |-> 0]
    /\ ctx = [done |-> FALSE, atCall |-> FALSE]
    /\ Idle

\* The path of the calls of the two functions.
PairPath == <<"f">>

\* Both functions are called on the same path, as
\* TestStreamFileToBase64Writer_Match does.
InitPair ==
    /\ NoZipCall
    /\ fs \in [{PairPath} -> FileSet(MaxFile)]
    /\ fentries = <<>>
    /\ fopts = FileOptionsZero
    /\ mc = IdleMap
    /\ sc = [IdleString EXCEPT !.pc = "stat", !.path = PairPath]
    /\ wc = [IdleWriter EXCEPT !.pc = "open", !.path = PairPath]

NextPair ==
    \/ StringStat
    \/ StringReadFile
    \/ StringOpen
    \/ StringCopy
    \/ StringClose
    \/ WriterFileOpen
    \/ WriterFileCopy
    \/ WriterFileClose

SpecPair == InitPair /\ [][NextPair]_vars

\* opts.Filter != nil && !opts.Filter(e) of StreamFilesToMap
FileFilterRejects(o, e) == o.Filter.set /\ e.Name \in o.Filter.reject

\* The path StreamFilesToMap reads for e: e.Path, or SafeJoin(opts.BaseDir, e.Path).
\* SafeJoin of package filestream has the body of SafeJoin of package zipstream.
PathToRead(o, e) ==
    IF o.BaseDir # <<>> THEN SafeJoin(o.BaseDir, e.Path) ELSE [path |-> e.Path, err |-> Nil]

\* A test that skips a missing file whatever opts.SkipMissing says.
SkipsEncodeErrorAlways(o, cause) == cause = "notexist"

\* opts.SkipMissing && errors.Is(err, os.ErrNotExist)
SkipsEncodeError(o, cause) == o.SkipMissing /\ cause = "notexist"

\* One turn of "for _, e := range entries" up to the call of
\* StreamFileToBase64, and "return out, nil" after the last entry.
MapEntry ==
    /\ mc.pc = "loop"
    /\ IF mc.i > Len(fentries)
       THEN /\ mc' = [mc EXCEPT !.pc = "done", !.ret = [nil |-> FALSE, map |-> mc.out]]
            /\ UNCHANGED sc
       ELSE LET e == fentries[mc.i]
                j == PathToRead(fopts, e)
            IN IF e.Name = <<>>
               THEN /\ mc' = [mc EXCEPT !.pc = "done", !.ret = NilMap,
                                        !.err = Error("EmptyName", <<>>, "nil")]
                    /\ UNCHANGED sc
               ELSE IF FileFilterRejects(fopts, e)
               THEN /\ mc' = [mc EXCEPT !.i = @ + 1]
                    /\ UNCHANGED sc
               ELSE IF j.err # Nil
               THEN /\ mc' = [mc EXCEPT !.pc = "done", !.ret = NilMap,
                                        !.err = Error("UnsafePath", e.Path, "nil")]
                    /\ UNCHANGED sc
               ELSE /\ mc' = [mc EXCEPT !.pc = "call", !.path = j.path,
                                        !.found = Append(@, [name |-> e.Name, kind |-> fs[j.path].kind])]
                    /\ sc' = [IdleString EXCEPT !.pc = "stat", !.path = j.path]
    /\ UNCHANGED <<zvars, fs, fentries, fopts, wc>>

\* b64, err := StreamFileToBase64(pathToRead) has returned: the entry is
\* skipped, the call fails, or out[e.Name] = b64.
MapReturn ==
    /\ mc.pc = "call"
    /\ sc.pc = "done"
    /\ LET e == fentries[mc.i]
       IN mc' = IF sc.err # "nil"
                THEN IF SkipsEncodeError(fopts, sc.err)
                     THEN [mc EXCEPT !.pc = "loop", !.i = @ + 1]
                     ELSE [mc EXCEPT !.pc = "done", !.ret = NilMap,
                                     !.err = Error("EncodeFailed", e.Name, sc.err)]
                ELSE [mc EXCEPT !.pc = "loop", !.i = @ + 1,
                                !.out = [n \in DOMAIN @ \cup {e.Name} |->
                                           IF n = e.Name THEN sc.res ELSE @[n]]]
    /\ sc' = IdleString
    /\ UNCHANGED <<zvars, fs, fentries, fopts, wc>>

\* The entries of the calls of StreamFilesToMap.
FileEntrySet ==
    { [Name |-> <<"a">>, Path |-> <<"f">>], [Name |-> <<"b">>, Path |-> <<"g">>],
      [Name |-> <<>>, Path |-> <<"f">>], [Name |-> <<"b">>, Path |-> <<".", ".", "/", "s">>] }

FileOptionSet == [SkipMissing : BOOLEAN, Filter : FilterSet, BaseDir : {<<>>, <<"/", "b">>}]

\* The files behind the paths of a call of StreamFilesToMap: none, one that
\* cannot be read, and a file of one byte on either path of StreamFileToBase64.
MapFileSet ==
    { fl \in FileSet(MaxFile) :
        /\ fl.kind = "locked" => fl.size = 0
        /\ fl.kind = "file" => Len(fl.data) = 1 }

\* The paths a call with these entries and options can read.
ReadPaths(es, o) == { PathToRead(o, es[k]).path : k \in { k \in DOMAIN es : PathToRead(o, es[k]).err = Nil } }

InitMap ==
    /\ NoZipCall
    /\ fentries \in SeqsUpTo(FileEntrySet, MaxEntries)
    /\ fopts \in FileOptionSet
    /\ fs \in [ReadPaths(fentries, fopts) -> MapFileSet]
    /\ mc = [IdleMap EXCEPT !.pc = "loop", !.i = 1]
    /\ sc = IdleString
    /\ wc = IdleWriter

NextMap ==
    \/ MapEntry
    \/ MapReturn
    \/ StringStat
    \/ StringReadFile
    \/ StringOpen
    \/ StringCopy
    \/ StringClose

SpecMap == InitMap /\ [][NextMap]_vars

(***************************************************************************)
(* Vocabulary of the properties                                            *)
(***************************************************************************)
Range(s) == { s[k] : k \in DOMAIN s }

ValidationKinds == {"EmptyName", "UnsafeName", "UnsafeAbsName", "DuplicateName"}

Normalized(name) == ReplaceAll(name, "\\", "/")

\* The name has ".." as a path segment, begins with a separator, contains
\* a colon or is absolute.
UnsafeName(name) ==
    \/ <<".", ".">> \in Range(Split(Normalized(name)))
    \/ (name # <<>> /\ Normalized(name)[1] = "/")
    \/ ":" \in Range(name)
    \/ IsAbs(name)

\* The name is one the validation rejects on its own: empty, beginning
\* with a separator or containing "../" once backslashes are slashes, or
\* containing a colon.
RejectedName(name) ==
    \/ name = <<>>
    \/ Normalized(name)[1] = "/"
    \/ \E k \in 1..(Len(name) - 2) : SubSeq(Normalized(name), k, k + 2) = <<".", ".", "/">>
    \/ ":" \in Range(name)

HasDuplicate(es) == \E j, k \in DOMAIN es : j < k /\ es[j].Name = es[k].Name

\* The position of the first entry whose name an earlier entry has.
FirstRepeat(es) ==
    CHOOSE k \in DOMAIN es :
        /\ \E j \in 1..(k - 1) : es[j].Name = es[k].Name
        /\ \A m \in 1..(k - 1) : \A j \in 1..(m - 1) : es[j].Name # es[m].Name

InvalidList(es) == HasDuplicate(es) \/ \E k \in DOMAIN es : RejectedName(es[k].Name)

Accepted(e) == ~opts.Filter.set \/ e.Name \notin opts.Filter.reject

OpenedOk(name) == \E k \in DOMAIN openlog : openlog[k].name = name /\ openlog[k].res = "ok"

SkippedMissing(name) ==
    /\ opts.SkipMissing
    /\ \E k \in DOMAIN openlog : openlog[k].name = name /\ openlog[k].res = "notexist"

IndexOfName(name) == CHOOSE k \in DOMAIN entries : entries[k].Name = name

Succeeded == pc = "done" /\ err = Nil

\* What a reader finds in the destination.
Archive == ReadArchive(DecodeString(w))

\* The base64 text of an archive without entries.
EmptyFraming == EncodeToString(EndOfDirectory(0, 0))

(***************************************************************************)
(* C1: every entry list with a name that has ".." as a path segment, a     *)
(* leading separator, a colon or an absolute form makes the call fail with *)
(* a validation error, and no source is opened.                            *)
(***************************************************************************)
C1_UnsafeNamesRejected ==
    (pc # "start" /\ \E k \in DOMAIN entries : UnsafeName(entries[k].Name))
        => (pc = "done" /\ err.kind \in ValidationKinds /\ openlog = <<>>)

(***************************************************************************)
(* C2 as stated: every entry list with two entries of the same name makes  *)
(* the call fail with the duplicate-name error before a source is opened.  *)
(***************************************************************************)
C2_DuplicateAlwaysReported ==
    (pc # "start" /\ HasDuplicate(entries))
        => (pc = "done" /\ err.kind = "DuplicateName" /\ openlog = <<>>)

(***************************************************************************)
(* C2 amended: every entry list with two entries of the same name makes    *)
(* the call fail with a validation error before a source is opened; the    *)
(* error is the duplicate-name error exactly when no entry up to the first *)
(* repeated one has a name that is rejected on its own.                    *)
(***************************************************************************)
C2_DuplicateRejected ==
    (pc # "start" /\ HasDuplicate(entries))
        => /\ pc = "done"
           /\ err.kind \in ValidationKinds
           /\ openlog = <<>>
           /\ err.kind = "DuplicateName"
                <=> \A j \in 1..FirstRepeat(entries) : ~RejectedName(entries[j].Name)
           /\ err.kind = "DuplicateName" => err.arg = entries[FirstRepeat(entries)].Name

C2_Witness ==
    /\ pc = "done"
    /\ err.kind = "DuplicateName"
    /\ Len(entries) = 3
    /\ entries[1].Name = entries[3].Name

(***************************************************************************)
(* C3: when validation fails the call has no side effects: nothing is      *)
(* written to the sink, no source is opened, the archive writer and the    *)
(* encoder are neither created nor closed.                                 *)
(***************************************************************************)
C3_ValidationFailureHasNoEffect ==
    (pc # "start" /\ InvalidList(entries))
        => /\ pc = "done"
           /\ err.kind \in ValidationKinds
           /\ w = <<>>
           /\ openlog = <<>>
           /\ f = NoFile
           /\ zw = NoWriter
           /\ b64 = NoEncoder

C3_Witness ==
    /\ pc = "done"
    /\ err.kind = "UnsafeName"
    /\ Len(entries) >= 2
    /\ ~RejectedName(entries[1].Name)

(***************************************************************************)
(* C4: when the call returns success the destination holds a finalized     *)
(* archive with a record for exactly the entries the filter accepted and   *)
(* whose source was opened, which are the entries neither filtered out nor *)
(* skipped as missing.                                                     *)
(***************************************************************************)
C4_ArchiveHasExactlyTheOpenedEntries ==
    Succeeded =>
        LET expected == { e \in Range(entries) : Accepted(e) /\ OpenedOk(e.Name) }
            remaining == { e \in Range(entries) : Accepted(e) /\ ~SkippedMissing(e.Name) }
        IN /\ Decodable(w)
           /\ Archive.good
           /\ { Archive.files[k].Name : k \in DOMAIN Archive.files } = { e.Name : e \in expected }
           /\ Len(Archive.files) = Cardinality(expected)
           /\ expected = remaining

C4_Witness ==
    /\ Succeeded
    /\ Len(entries) = 3
    /\ Len(zw.dir) = 1
    /\ \E e \in Range(entries) : ~Accepted(e)
    /\ \E e \in Range(entries) : SkippedMissing(e.Name)

(***************************************************************************)
(* C5: the records of the archive are in the order of the input list: of   *)
(* two archived entries, the earlier of the list has its header and all    *)
(* its data written before the header of the later.                        *)
(***************************************************************************)
C5_RecordsInInputOrder ==
    /\ \A p, q \in DOMAIN zw.log :
          ( /\ zw.log[q].op = "header"
            /\ zw.log[p].op # "directory"
            /\ zw.log[p].name # zw.log[q].name )
          => (p < q <=> IndexOfName(zw.log[p].name) < IndexOfName(zw.log[q].name))
    /\ Succeeded =>
          \A j, k \in DOMAIN Archive.files :
             j < k => IndexOfName(Archive.files[j].Name) < IndexOfName(Archive.files[k].Name)

C5_Witness ==
    /\ Succeeded
    /\ Len(Archive.files) >= 2
    /\ \E k \in DOMAIN zw.log : zw.log[k].op = "data" /\ zw.log[k].name = Archive.files[1].Name

(***************************************************************************)
(* C6: round trip.  On success, decoding the base64 text and decompressing *)
(* each archived entry gives the bytes its source delivered, for stored    *)
(* and for deflated entries.                                               *)
(***************************************************************************)
C6_RoundTrip ==
    Succeeded =>
        /\ Decodable(w)
        /\ Archive.good
        /\ Len(Archive.files) = Len(zw.dir)
        /\ \A k \in DOMAIN Archive.files :
              Archive.files[k].Data = delivered[IndexOfName(Archive.files[k].Name)]

C6_Witness ==
    /\ Succeeded
    /\ \E k \in DOMAIN Archive.files :
          Archive.files[k].Method = "Store" /\ Len(Archive.files[k].Data) = MaxData
    /\ \E k \in DOMAIN Archive.files :
          Archive.files[k].Method = "Deflate" /\ Len(Archive.files[k].Data) = MaxData

(***************************************************************************)
(* C7: a failed open is skipped (no archive record, the loop goes on, the  *)
(* call can still succeed) if and only if skip-missing is set and the      *)
(* source does not exist; any other failed open makes the call fail.       *)
(***************************************************************************)
C7_OnlyMissingIsSkipped ==
    \A k \in DOMAIN openlog :
        LET r == openlog[k]
        IN r.res # "ok" =>
             IF opts.SkipMissing /\ r.res = "notexist"
             THEN /\ \A j \in DOMAIN zw.dir : zw.dir[j].Name # r.name
                  /\ err.kind = "OpenFailed" => k < Len(openlog)
                  /\ (k = Len(openlog) /\ errlog = <<>>)
                        => pc \in {"loop", "entry", "closezw", "closeb64", "done"}
             ELSE /\ k = Len(openlog)
                  /\ err.kind = "OpenFailed"
                  /\ err.cause = r.res
                  /\ err.arg = r.path
                  /\ pc \in {"closezw", "closeb64", "done"}

C7_Witness ==
    /\ Succeeded
    /\ Len(zw.dir) = 2
    /\ Len(openlog) = 3
    /\ openlog[2].res = "notexist"

(***************************************************************************)
(* C8 as stated: for every valid entry list, a call made with the context  *)
(* already cancelled fails with Cancelled, opens no source and writes at   *)
(* most the framing of an empty archive.                                   *)
(***************************************************************************)
C8_PreCancelledAlwaysFails ==
    (pc = "done" /\ ctx.atCall /\ ~InvalidList(entries))
        => (err.kind = "Cancelled" /\ openlog = <<>> /\ w \in {<<>>, EmptyFraming})

(***************************************************************************)
(* C8 amended: for every valid entry list that is not empty, a call made   *)
(* with the context already cancelled fails with Cancelled, opens no       *)
(* source and writes at most the framing of an empty archive.              *)
(***************************************************************************)
C8_PreCancelledFails ==
    (ctx.atCall /\ ~InvalidList(entries) /\ entries # <<>>)
        => /\ openlog = <<>>
           /\ zw.dir = <<>>
           /\ w \in {<<>>, EmptyFraming}
           /\ pc = "done" => err.kind = "Cancelled"

C8_Witness ==
    /\ pc = "done"
    /\ ctx.atCall
    /\ Len(entries) >= 2
    /\ err.kind = "Cancelled"
    /\ w = EmptyFraming

(***************************************************************************)
(* C9: with a base directory set, every source the call opens lies inside  *)
(* the base directory, and an entry whose path resolves outside it makes   *)
(* the call fail with a path-escape error without that source being        *)
(* opened.                                                                 *)
(***************************************************************************)
\* The directories a path names, one after the other, from the root.
RECURSIVE Walk(_, _)
Walk(stack, segs) ==
    IF segs = <<>> THEN stack
    ELSE IF Head(segs) \in {<<>>, <<".">>} THEN Walk(stack, Tail(segs))
    ELSE IF Head(segs) = <<".", ".">>
         THEN Walk(IF stack = <<>> THEN stack ELSE SubSeq(stack, 1, Len(stack) - 1), Tail(segs))
    ELSE Walk(Append(stack, Head(segs)), Tail(segs))

BaseWalk ==
    IF IsAbs(opts.BaseDir) THEN Walk(<<>>, Split(opts.BaseDir))
    ELSE Walk(Walk(<<>>, Split(Getwd)), Split(opts.BaseDir))

Below(stack) == Len(stack) >= Len(BaseWalk) /\ SubSeq(stack, 1, Len(BaseWalk)) = BaseWalk

\* The loop has gone past the cancellation check of the k-th entry.
Processed(k) ==
    \/ k < i
    \/ k = i /\ pc \in {"entry", "header", "copy", "read", "closefile"}
    \/ k = i /\ errlog # <<>>
             /\ errlog[1] \in {"UnsafePath", "OpenFailed", "CreateEntryFailed", "WriteEntryFailed"}

C9_BaseDirConfines ==
    opts.BaseDir # <<>> =>
        /\ \A k \in DOMAIN openlog :
              /\ IsAbs(openlog[k].path)
              /\ Below(Walk(<<>>, Split(openlog[k].path)))
        /\ \A k \in DOMAIN entries :
              ( /\ Processed(k)
                /\ pc # "entry"
                /\ Accepted(entries[k])
                /\ ~Below(Walk(BaseWalk, Split(entries[k].Path))) )
              => /\ k = i
                 /\ pc \in {"closezw", "closeb64", "done"}
                 /\ err.kind = "UnsafePath"
                 /\ err.cause = "PathEscape"
                 /\ err.arg = entries[k].Path
                 /\ \A j \in DOMAIN openlog : openlog[j].name # entries[k].Name

C9_Witness ==
    /\ pc = "done"
    /\ opts.BaseDir # <<>>
    /\ err.kind = "UnsafePath"
    /\ err.arg = <<".", ".", "/", "s">>
    /\ Len(openlog) >= 1

(***************************************************************************)
(* C10: first failure wins.  The error the call returns is the earliest of *)
(* the errors of the entry loop, of the archive writer's close and of the  *)
(* encoder's close; a close error is returned only when no earlier error   *)
(* exists, and an error is never replaced by a later one.                  *)
(***************************************************************************)
C10_FirstFailureWins ==
    /\ errlog = <<>> <=> err = Nil
    /\ errlog # <<>> => err.kind = errlog[1]

C10_Witness ==
    /\ pc = "done"
    /\ Len(errlog) = 3
    /\ err.kind = "WriteEntryFailed"
    /\ errlog[2] = "CloseZip"
    /\ errlog[3] = "CloseBase64"

(***************************************************************************)
(* C11: the deferred closes                                                *)
(***************************************************************************)
PassedValidation == validateEntries(entries) = Nil

\* The number of Close calls made on x ("f", "zw" or "b64").
Closes(x) == Cardinality({ k \in DOMAIN closelog : closelog[k] = x })

\* C11: a call that passes validation closes the archive writer exactly
\* once and then the base64 encoder exactly once: zw.Close is called when
\* the loop has ended (normally, by cancellation or by an error) and nothing
\* is called between it and b64.Close, which is the last call before the
\* return and is made even when zw.Close failed.  A call that fails
\* validation closes neither.
C11_ClosedOnceInOrder ==
    /\ Closes("zw") = (IF PassedValidation /\ pc \in {"closeb64", "done"} THEN 1 ELSE 0)
    /\ Closes("b64") = (IF PassedValidation /\ pc = "done" THEN 1 ELSE 0)
    /\ Closes("zw") = 1 /\ Closes("b64") = 0 => closelog[Len(closelog)] = "zw"
    /\ Closes("b64") = 1 =>
          /\ closelog[Len(closelog)] = "b64"
          /\ closelog[Len(closelog) - 1] = "zw"
    /\ pc = "done" /\ "CloseZip" \in Range(errlog) => Closes("b64") = 1

\* zw.Close failed after an entry was written, and b64.Close was still
\* called after it.
C11_Witness ==
    /\ pc = "done"
    /\ errlog # <<>> /\ errlog[1] = "CloseZip"
    /\ Closes("f") >= 1
    /\ closelog[Len(closelog) - 1] = "zw"
    /\ closelog[Len(closelog)] = "b64"

(***************************************************************************)
(* C12: the source files                                                   *)
(***************************************************************************)
\* The number of os.Open calls that returned a file.
Opens == Cardinality({ k \in DOMAIN openlog : openlog[k].res = "ok" })

\* C12: at most one source file is open at any time, and a file that was
\* opened is closed before the loop examines the next entry and before the
\* call returns, whatever CreateHeader and the copy did: only between
\* os.Open and the end of the closure is a file open, and every f.Close
\* precedes zw.Close.
C12_OneSourceOpen ==
    /\ Opens - Closes("f") \in {0, 1}
    /\ f.open <=> Opens - Closes("f") = 1
    /\ pc \in {"start", "loop", "entry", "closezw", "closeb64", "done"} => Opens = Closes("f")
    /\ pc \in {"header", "copy", "read", "closefile"} => Opens = Closes("f") + 1
    /\ \A j, k \in DOMAIN closelog : closelog[j] = "f" /\ closelog[k] # "f" => j < k

\* The second source was opened after the first was closed, and was closed
\* although its header or its copy failed or was cancelled.
C12_Witness ==
    /\ pc = "done"
    /\ Opens = 2
    /\ Closes("f") = 2
    /\ errlog # <<>>
    /\ errlog[1] \in {"CreateEntryFailed", "WriteEntryFailed"}

(***************************************************************************)
(* C13: the compression method                                             *)
(***************************************************************************)
\* The positions of the dots in the last element of the name.
LastDots(name) ==
    { k \in DOMAIN name : name[k] = "." /\ \A j \in (k + 1)..Len(name) : name[j] # "/" }

\* The extension of a name: its text from the last dot of its last element.
NameExtension(name) ==
    IF LastDots(name) = {} THEN <<>>
    ELSE SubSeq(name, CHOOSE k \in LastDots(name) : \A j \in LastDots(name) : j <= k, Len(name))

MethodByName(name) ==
    IF NameExtension(name) \in defaultCompressedExt THEN "Store" ELSE "Deflate"

\* C13: every entry of the archive has the method Store exactly when the
\* extension of its logical name, compared with its case, is in the set of
\* pre-compressed extensions, and Deflate otherwise, whatever the path, the
\* level, the data and the other entries are: in the headers the writer
\* recorded, and in the archive a reader finds after a success.
C13_MethodByExtension ==
    /\ \A k \in DOMAIN zw.dir : zw.dir[k].Method = MethodByName(zw.dir[k].Name)
    /\ Succeeded =>
          /\ Archive.good
          /\ Len(Archive.files) = Len(zw.dir)
          /\ \A k \in DOMAIN Archive.files :
                Archive.files[k].Method = MethodByName(Archive.files[k].Name)

\* An archive with "b.png" stored, "c.PNG" deflated and "a" deflated.
C13_Witness ==
    /\ Succeeded
    /\ Len(Archive.files) = 3
    /\ \E k \in DOMAIN Archive.files :
          /\ Archive.files[k].Name = <<"b", ".", "p", "n", "g">>
          /\ Archive.files[k].Method = "Store"
    /\ \E k \in DOMAIN Archive.files :
          /\ Archive.files[k].Name = <<"c", ".", "P", "N", "G">>
          /\ Archive.files[k].Method = "Deflate"
    /\ \E k \in DOMAIN Archive.files :
          /\ Archive.files[k].Name = <<"a">>
          /\ Archive.files[k].Method = "Deflate"

(***************************************************************************)
(* C14: the compression level                                              *)
(***************************************************************************)
\* C14: the level of the deflater is the level of the options when that is
\* from -2 to 9, and 1 for every other level; and no level makes the call
\* fail: an entry header is only refused when the destination refused a
\* write, and a call whose sources open and read and whose destination
\* accepts every write succeeds unless it is cancelled.
C14_LevelClamped ==
    /\ PassedValidation /\ pc # "start" =>
          lvl = (IF -2 <= opts.CompressionLevel /\ opts.CompressionLevel <= 9
                 THEN opts.CompressionLevel ELSE 1)
    /\ "CreateEntryFailed" \in Range(errlog) => b64.err
    /\ pc = "done" /\ err # Nil =>
          \/ b64.err
          \/ err.kind \in ValidationKinds \cup {"Cancelled", "OpenFailed"}
          \/ err.kind = "WriteEntryFailed" /\ err.cause \in {"Cancelled", "read"}

\* A call with a level above the range archived a deflated entry at level 1
\* and succeeded.
C14_Witness ==
    /\ Succeeded
    /\ opts.CompressionLevel = 10
    /\ lvl = 1
    /\ \E k \in DOMAIN zw.dir : zw.dir[k].Method = "Deflate"

(***************************************************************************)
(* C15: the destination after a failure                                    *)
(***************************************************************************)
IsPrefix(s, t) == Len(s) <= Len(t) /\ SubSeq(t, 1, Len(s)) = s

\* The call has returned an error other than a validation error.
FailedAfterSetup == pc = "done" /\ err # Nil /\ PassedValidation

\* The header of an entry reached the destination.
HeaderWritten == \E k \in DOMAIN zw.log : zw.log[k].op = "header"

\* The destination holds a finalized archive a reader can decode.
Finalized == Decodable(w) /\ Archive.good

\* C15 as stated: a call that fails after the archive writer was created
\* and after part of the output was written leaves a partial sequence in
\* the destination that cannot be decoded as a finalized archive.
C15_FailureLeavesNoArchive == FailedAfterSetup /\ HeaderWritten => ~Finalized

\* C15, amended: the destination only grows, also when the call fails.
\* After a failure the deferred closes have still run: when the destination
\* accepted every write it holds a finalized archive with a record for
\* each entry whose header was written, and only when it refused a write
\* is it left with a sequence that is no finalized archive.
C15_FailureStillFinalizes ==
    /\ [][IsPrefix(w, w')]_vars
    /\ [](FailedAfterSetup /\ ~b64.err =>
            /\ Finalized
            /\ [k \in DOMAIN Archive.files |-> Archive.files[k].Name]
                 = [k \in DOMAIN zw.dir |-> zw.dir[k].Name])
    /\ [](FailedAfterSetup /\ b64.err => ~Finalized)

\* The second source could not be opened after the first entry was
\* archived, and the destination holds a finalized archive of one entry.
C15_Witness ==
    /\ FailedAfterSetup
    /\ err.kind = "OpenFailed"
    /\ HeaderWritten
    /\ Finalized
    /\ Len(Archive.files) = 1

(***************************************************************************)
(* C16: the response to a cancellation                                     *)
(***************************************************************************)
\* C16: once the context is cancelled the call starts at most one more unit
\* of work, an os.Open or a Read of a chunk (the one in flight or about to
\* start when the signal was set), before it stops processing entries: it
\* never starts a second Read or a second os.Open after the signal was set.
C16_BoundedResponse == late <= 1

\* The context was cancelled while a source was being copied, one more
\* chunk was read, and the call returned.
C16_Witness ==
    /\ pc = "done"
    /\ ctx.done /\ ~ctx.atCall
    /\ late = 1
    /\ err.kind = "WriteEntryFailed" /\ err.cause = "Cancelled"

(***************************************************************************)
(* C19, C20: copyWithContext                                               *)
(***************************************************************************)
\* The copier of the current entry has returned the error of the cause.
CopierReturned(cause) == err.kind = "WriteEntryFailed" /\ err.cause = cause

\* The positions of the call after the copier of the failed entry returned.
AfterCopy == {"closefile", "closezw", "closeb64", "done"}

\* The bytes the source of the current entry returned from Read are the
\* bytes that were written to the writer of its archive entry.
AllReadWritten == Len(delivered[i]) = LastHeader(zw).usize

\* C19: a read is only started right after a poll of the context that
\* found it not cancelled, and each read needs a poll of its own; a poll
\* that finds the context cancelled makes the copier return Cancelled
\* without reading or writing anything, and nothing of the entry is read
\* or written after it; at every poll, and when the copier returns
\* Cancelled, every chunk that was read has been written in full.
C19_PollBeforeEveryRead ==
    /\ [][pc' = "read" /\ pc # "read" => pc = "copy" /\ ~ctx.done]_vars
    /\ [][pc = "read" /\ ctx' = ctx => pc' \in {"copy", "closefile"}]_vars
    /\ [][delivered' # delivered => pc = "read"]_vars
    /\ [][pc = "copy" /\ ctx.done =>
            /\ pc' = "closefile"
            /\ err'.kind = "WriteEntryFailed" /\ err'.cause = "Cancelled"
            /\ delivered' = delivered /\ w' = w /\ zw' = zw /\ b64' = b64]_vars
    /\ [](CopierReturned("Cancelled") => pc \in AfterCopy)
    /\ [][CopierReturned("Cancelled") => delivered' = delivered]_vars
    /\ [](pc \in {"copy", "read"} => AllReadWritten)
    /\ [](CopierReturned("Cancelled") /\ pc = "closefile" => AllReadWritten)

\* The copier returned Cancelled after it had read and written a chunk.
C19_Witness ==
    /\ CopierReturned("Cancelled")
    /\ pc = "closefile"
    /\ Len(delivered[i]) >= 1
    /\ AllReadWritten

\* C20: when the write of a chunk fails the copier returns that error at
\* once, also when the read that returned the chunk returned an error with
\* it, and nothing of the entry is read or written to its archive entry
\* after it.
C20_WriteErrorReturned ==
    /\ [](last.werr => pc = "closefile" /\ CopierReturned("write"))
    /\ [][last.werr /\ ctx' = ctx =>
            pc' = "closezw" /\ delivered' = delivered /\ w' = w /\ zw' = zw]_vars
    /\ [](CopierReturned("write") => pc \in AfterCopy)
    /\ [][CopierReturned("write") => delivered' = delivered]_vars

\* A read returned a chunk together with an error, the write of the chunk
\* failed, and the copier returned the error of the write.
C20_Witness ==
    /\ last.n > 0
    /\ last.rerr = "error"
    /\ last.werr
    /\ CopierReturned("write")


(***************************************************************************)
(* C17: for a readable file, the text StreamFileToBase64Writer writes to   *)
(* its writer equals the string StreamFileToBase64 returns for the same    *)
(* file, and both are the standard base64 encoding of the file's bytes     *)
(* (which decodes to these bytes), on the small-file path and on the       *)
(* streamed path alike.                                                    *)
(***************************************************************************)
StringReturned == sc.pc = "done" /\ sc.err = "nil"

WriterReturned == wc.pc = "done" /\ wc.err = "nil"

C17_WriterMatchesString ==
    /\ StringReturned =>
          /\ sc.res = EncodeToString(fs[PairPath].data)
          /\ Decodable(sc.res)
          /\ DecodeString(sc.res) = fs[PairPath].data
    /\ WriterReturned => wc.w = EncodeToString(fs[PairPath].data)
    /\ StringReturned /\ WriterReturned => wc.w = sc.res

\* Both calls returned for a file above the threshold whose last group is
\* incomplete, the writer's copy having taken more than one read.
C17_Witness ==
    /\ StringReturned
    /\ WriterReturned
    /\ ~IsSmallFile(fs[PairPath])
    /\ Len(fs[PairPath].data) > 3
    /\ Len(fs[PairPath].data) % 3 # 0
    /\ wc.w = sc.res

\* Both calls returned for a file of the small path that needs padding.
C17_WitnessSmall ==
    /\ StringReturned
    /\ WriterReturned
    /\ IsSmallFile(fs[PairPath])
    /\ Len(fs[PairPath].data) % 3 = 1
    /\ wc.w = sc.res

(***************************************************************************)
(* C18: a call of StreamFilesToMap that succeeds returns a map whose keys  *)
(* are exactly the names of the entries that passed the filter and whose   *)
(* file exists, each with the encoding of such a file; with SkipMissing    *)
(* enabled a missing file never makes the call fail; with SkipMissing      *)
(* disabled a call that reached a missing file has failed; a call that     *)
(* failed returned no map.                                                 *)
(***************************************************************************)
MapSucceeded == mc.pc = "done" /\ mc.err = Nil

MapFailed == mc.pc = "done" /\ mc.err # Nil

\* The entries that passed the filter and whose file exists.
PresentEntries ==
    { k \in DOMAIN fentries :
        /\ ~FileFilterRejects(fopts, fentries[k])
        /\ PathToRead(fopts, fentries[k]).err = Nil
        /\ fs[PathToRead(fopts, fentries[k]).path].kind # "missing" }

ReachedMissing == \E k \in DOMAIN mc.found : mc.found[k].kind = "missing"

C18_SkipMissingMap ==
    /\ MapSucceeded =>
          /\ ~mc.ret.nil
          /\ DOMAIN mc.ret.map = { fentries[k].Name : k \in PresentEntries }
          /\ \A n \in DOMAIN mc.ret.map :
                \E k \in PresentEntries :
                   /\ fentries[k].Name = n
                   /\ mc.ret.map[n] = EncodeToString(fs[PathToRead(fopts, fentries[k]).path].data)
    /\ fopts.SkipMissing /\ MapFailed => mc.err.cause # "notexist"
    /\ ~fopts.SkipMissing /\ mc.pc = "done" /\ ReachedMissing =>
          /\ MapFailed
          /\ mc.err.cause = "notexist"
    /\ MapFailed => mc.ret.nil

\* A call with SkipMissing and a filter succeeded: one entry was rejected,
\* one file was missing, one file was encoded.
C18_Witness ==
    /\ fopts.SkipMissing
    /\ MapSucceeded
    /\ ReachedMissing
    /\ DOMAIN mc.ret.map # {}
    /\ \E k \in DOMAIN fentries : FileFilterRejects(fopts, fentries[k])

\* A call without SkipMissing failed on a missing file after it had encoded
\* another one.
C18_WitnessFailed ==
    /\ ~fopts.SkipMissing
    /\ MapFailed
    /\ ReachedMissing
    /\ DOMAIN mc.out # {}
    /\ mc.ret.nil

(***************************************************************************)
(* C21: while the copier runs without an error, and when it returns        *)
(* success, the writer of the archive entry has received exactly the       *)
(* bytes the source returned, in their order, the chunk of a read that     *)
(* returned io.EOF included; a read that returns io.EOF whose chunk was    *)
(* written makes the copier return nil.                                    *)
(***************************************************************************)
\* The bytes the archive writer has written to the encoder, read back from
\* the text in the sink and the incomplete group the encoder holds.
RawBytes == DecodeString(w) \o b64.buf

\* The bytes the writer of the current archive entry has received: those
\* its deflater holds, or the stored bytes after its local header.
EntryReceived ==
    LET h == LastHeader(zw)
    IN IF h.Method = "Deflate" THEN zw.pend
       ELSE SubSeq(RawBytes, h.offset + Len(LocalHeader(h)) + 1, zw.count)

\* copyWithContext has returned nil for the current entry.
CopierSucceeded == pc = "closefile" /\ err = Nil /\ last.rerr = "EOF"

C21_CopierExactBytes ==
    /\ [](pc \in {"copy", "read"} => EntryReceived = delivered[i])
    /\ [](CopierSucceeded =>
            /\ EntryReceived = delivered[i]
            /\ LastHeader(zw).usize = Len(delivered[i]))
    /\ [][pc = "read" /\ last'.rerr = "EOF" /\ ~last'.werr =>
            pc' = "closefile" /\ err' = Nil]_vars

\* The copier returned nil for a stored entry after two reads, the second
\* of which returned a byte together with io.EOF.
C21_Witness ==
    /\ CopierSucceeded
    /\ last.n > 0
    /\ Len(delivered[i]) > last.n
    /\ LastHeader(zw).Method = "Store"
    /\ EntryReceived = delivered[i]

(***************************************************************************)
(* C22: once err holds an error, the loop is over: the index of the        *)
(* current entry stays, no source is opened, no byte is read from a        *)
(* source, no archive entry is created, and the call is in its closes or   *)
(* has returned.  The index only moves forward by one, and an entry is     *)
(* opened at most once, so that none is processed twice.                   *)
(***************************************************************************)
\* The errors that end the entry loop.
FatalKinds == {"UnsafePath", "OpenFailed", "CreateEntryFailed", "WriteEntryFailed", "Cancelled"}

\* The positions of the call after the entry loop.
AfterLoop == {"closefile", "closezw", "closeb64", "done"}

C22_FatalErrorEndsLoop ==
    /\ [](err # Nil => pc \in AfterLoop)
    /\ [][err # Nil =>
            /\ err' # Nil
            /\ i' = i
            /\ openlog' = openlog
            /\ delivered' = delivered
            /\ Len(zw'.dir) = Len(zw.dir)
            /\ pc' \in AfterLoop]_vars
    /\ [][i' = i \/ i' = i + 1]_vars
    /\ [][openlog' # openlog => Len(openlog') = Len(openlog) + 1 /\ pc = "entry"]_vars
    /\ [](Len(openlog) <= i /\ Len(zw.dir) <= Len(openlog))
    /\ [](pc = "loop" => Len(openlog) < i)

\* The call returned the error of the second of three entries: the first
\* entry has its archive record, the third was never reached.
C22_Witness ==
    /\ pc = "done"
    /\ err.kind \in FatalKinds
    /\ i = 2
    /\ Len(entries) = 3
    /\ Len(zw.dir) >= 1
    /\ Len(openlog) = 2

C22_WitnessUnsafePath == pc = "done" /\ err.kind = "UnsafePath" /\ i < Len(entries)

C22_WitnessOpenFailed == pc = "done" /\ err.kind = "OpenFailed" /\ i < Len(entries)

C22_WitnessCreateEntryFailed == pc = "done" /\ err.kind = "CreateEntryFailed" /\ i < Len(entries)

C22_WitnessWriteEntryFailed == pc = "done" /\ err.kind = "WriteEntryFailed" /\ i < Len(entries)

C22_WitnessCancelled == pc = "done" /\ err.kind = "Cancelled" /\ i < Len(entries)

(***************************************************************************)
(* C23: the filter is asked before the path of the entry is resolved and   *)
(* before its source is opened: the step of an entry the filter rejects    *)
(* goes on to the next entry and changes neither err, the list of opens    *)
(* nor the archive; no source of a rejected entry is ever opened, no       *)
(* archive entry carries its name, and no error of the resolution or of    *)
(* the open belongs to it.                                                 *)
(***************************************************************************)
\* The path of e leaves the base directory of the call.
Escapes(e) == opts.BaseDir # <<>> /\ SafeJoin(opts.BaseDir, e.Path).err # Nil

C23_FilterBeforeResolveAndOpen ==
    /\ [][pc = "entry" /\ ~Accepted(Current) /\ ctx' = ctx =>
            /\ pc' = "loop"
            /\ i' = i + 1
            /\ err' = err /\ errlog' = errlog
            /\ openlog' = openlog
            /\ zw' = zw /\ b64' = b64 /\ w' = w]_vars
    /\ [](\A k \in DOMAIN openlog :
            \A n \in DOMAIN entries : entries[n].Name = openlog[k].name => Accepted(entries[n]))
    /\ [](\A k \in DOMAIN zw.dir :
            \A n \in DOMAIN entries : entries[n].Name = zw.dir[k].Name => Accepted(entries[n]))
    /\ [](err.kind \in {"UnsafePath", "OpenFailed"} => Accepted(entries[i]))

\* The call returned nil although the filter's rejected entry has a path
\* that leaves the base directory; another entry was written.
C23_Witness ==
    /\ pc = "done"
    /\ err = Nil
    /\ \E n \in DOMAIN entries : ~Accepted(entries[n]) /\ Escapes(entries[n])
    /\ Len(zw.dir) >= 1

(***************************************************************************)
(* C24: the call terminates.  The copier of every entry leaves its loop,   *)
(* and the call reaches its return, after both deferred closes when the    *)
(* validation passed, with or without cancellation.  (A source returns     *)
(* at most MaxData bytes, never zero bytes without an error, then io.EOF   *)
(* or an error.)                                                           *)
(***************************************************************************)
Returned ==
    /\ pc = "done"
    /\ PassedValidation => Closes("zw") = 1 /\ Closes("b64") = 1

C24_Terminates ==
    /\ <>Returned
    /\ (pc \in {"copy", "read"}) ~> (pc = "closefile")
    /\ [][pc = "done" => pc' = "done"]_vars

\* The call returned after the copiers of two entries left their loops,
\* the context having been cancelled on the way.
C24_Witness ==
    /\ Returned
    /\ ctx.done
    /\ Len(openlog) >= 2
    /\ Len(zw.dir) >= 2
    /\ \E k \in DOMAIN delivered : Len(delivered[k]) = MaxData

(***************************************************************************)
(* C25: whatever the options are, a call whose entry list has a duplicate  *)
(* name or an unsafe name (empty, ".." as a segment, a leading separator,  *)
(* a colon, absolute) fails in validation before a source is opened, and   *)
(* the error names the first such entry of the list.                       *)
(***************************************************************************)
\* The entry at position k has an empty or unsafe name, or the name of an
\* earlier entry.
Offends(es, k) ==
    \/ es[k].Name = <<>>
    \/ UnsafeName(es[k].Name)
    \/ \E j \in 1..(k - 1) : es[j].Name = es[k].Name

FirstOffender(es) ==
    CHOOSE k \in DOMAIN es : Offends(es, k) /\ \A j \in 1..(k - 1) : ~Offends(es, j)

C25_ValidationIgnoresOptions ==
    (pc # "start" /\ \E k \in DOMAIN entries : Offends(entries, k))
        => /\ pc = "done"
           /\ err.kind \in ValidationKinds
           /\ err.arg = entries[FirstOffender(entries)].Name
           /\ openlog = <<>>

\* The same for the names validateEntries tests for: with these the
\* verdict is the first violation in list order under every option.
OffendsAsCoded(es, k) ==
    \/ RejectedName(es[k].Name)
    \/ \E j \in 1..(k - 1) : es[j].Name = es[k].Name

FirstOffenderAsCoded(es) ==
    CHOOSE k \in DOMAIN es : OffendsAsCoded(es, k) /\ \A j \in 1..(k - 1) : ~OffendsAsCoded(es, j)

C25_CodedValidationIgnoresOptions ==
    (pc # "start" /\ \E k \in DOMAIN entries : OffendsAsCoded(entries, k))
        => /\ pc = "done"
           /\ err.kind \in ValidationKinds
           /\ err.arg = entries[FirstOffenderAsCoded(entries)].Name
           /\ openlog = <<>>

\* A call with SkipMissing and a filter that rejects the repeated name
\* failed in validation with the duplicate-name error.
C25_WitnessCoded ==
    /\ pc = "done"
    /\ opts.SkipMissing
    /\ err.kind = "DuplicateName"
    /\ ~Accepted(entries[FirstOffenderAsCoded(entries)])

\* A call with a filter that rejects the name ".." went past validation
\* with an entry of that name.
C25_WitnessPassed ==
    /\ pc = "done"
    /\ err = Nil
    /\ \E k \in DOMAIN entries : UnsafeName(entries[k].Name) /\ ~Accepted(entries[k])

(***************************************************************************)
(* C26: StreamZipToBase64 returns the empty string whenever                *)
(* StreamZipToBase64Writer returned an error, whatever the buffer holds by *)
(* then; when it returned nil, StreamZipToBase64 returns exactly the       *)
(* contents of the buffer, with a nil error; the error is never Cancelled, *)
(* from the loop or from the copier.                                       *)
(***************************************************************************)
StringCallReturned == sb.pc = "done"

C26_EmptyStringOnError ==
    /\ StringCallReturned /\ err # Nil => sb.res = <<>> /\ sb.err = err
    /\ StringCallReturned /\ err = Nil => sb.res = w /\ sb.err = Nil
    /\ sb.pc # "none" =>
          /\ ~ctx.done
          /\ err.kind # "Cancelled"
          /\ err.cause # "Cancelled"
          /\ "Cancelled" \notin Range(errlog)

\* StreamZipToBase64 returned the empty string and the error of a source
\* while the buffer holds the text of a finalized archive with an entry.
C26_Witness ==
    /\ StringCallReturned
    /\ sb.err.kind = "WriteEntryFailed"
    /\ sb.res = <<>>
    /\ w # <<>>
    /\ Len(zw.dir) >= 1

\* StreamZipToBase64 returned the text of an archive with two entries.
C26_WitnessSuccess ==
    /\ StringCallReturned
    /\ sb.err = Nil
    /\ sb.res = w
    /\ Len(zw.dir) = 2
====
